---------------------------- MODULE Spec2Model ----------------------------
(***************************************************************************)
(* UniWRTC: the negotiation and coordination core of src/src/main.js, the  *)
(* coordinator election of src/src/coordinator.js and the initiator choice *)
(* of src/simple-peer-adapter.js, as state machines.                       *)
(*                                                                         *)
(* A PeerId is a string; it is modelled as the tuple of its UTF-16 code    *)
(* units, so that the two orders the code uses (String.localeCompare and   *)
(* the < operator on strings) are computed, not assumed.                   *)
(***************************************************************************)
EXTENDS Integers, Sequences, FiniteSets, TLC

VARIABLES
  \* ---- role assignment (shouldInitiateWith / chooseDeterministicInitiator)
  rolePair,        \* the two PeerIds of the pair under test
  roleOut,         \* the initiator tests computed for the pair
  \* ---- coordinator election (PeerCoordinator, one per member)
  now,             \* Date.now(), in seconds
  joined,          \* members between initialize() and destroy()
  coordinatorId,   \* this.coordinatorId
  isCoordinator,   \* this.isCoordinator
  knownPeers,      \* this.knownPeers: peerId -> lastSeen (NoTime: no record)
  coordinatorHeartbeatTimer,  \* the heartbeat interval is running
  coordinatorElectionTimer,   \* the watchdog interval is running
  electionAnnounced,          \* this.electionAnnounced
  room,            \* the members whose PeerCoordinator runs (fixed)
  coMsgs,          \* the coordinator message last published to the room
  lastElection,    \* the last election run: member, force flag, alive set
  \* ---- candidate batcher (pc.onicecandidate, one remote peer)
  nostrClient,     \* the relay client is set (not null)
  gunEnabled,      \* gunEnabled
  hybridSignaling, \* hybridSignaling is set (not null)
  peerSession,     \* peerSessions holds a session token of the peer
  icePc,           \* the gathering RTCPeerConnection of the peer (0: none)
  iceCreated,      \* the number of RTCPeerConnections created so far
  outboundIceBatch,\* outboundIceBatches.get(peerId): candidates and timer
  iceTimeouts,     \* the pending setTimeout(flush, 250) callbacks, oldest first
  iceOut,          \* the candidate messages sent to the peer, in order
  iceGen,          \* the candidates the current connection has generated
  iceDone,         \* the current connection has signalled end-of-candidates
  iceExpired,      \* its debounce timer fired before end-of-candidates
  iceClock,        \* the clock of the timeouts, in milliseconds
  \* ---- transport arbitration (setPreferredSource, one remote peer)
  peerPreferredSource,  \* peerPreferredSource.get(peerId) ("none": no entry)
  peerSources,     \* peerSources.get(peerId) ("none": no entry)
  lastSignalSource,\* lastSignalSource.get(peerId) ("none": no entry)
  trackerPeers,    \* the tracker peer in trackerPeers: "none", "attached", "connected"
  arbPc,           \* peerConnections holds an RTCPeerConnection of the peer
  arbPcClosed,     \* that RTCPeerConnection has been closed
  arbDc,           \* the data channel in dataChannels: state and sourceHint
  arbClosing,      \* closed channels whose onclose has not run yet
  arbMade,         \* the channels and tracker peers created so far
  arbCycles,       \* the winner's connections closed since it won
  arbRejected,     \* the activations of another transport since then
  \* ---- relay negotiation (onPayload, one browser tab per member)
  relayPeers,      \* the members that take part (fixed)
  inst,            \* the module state of each member's tab
  relayLog,        \* the events published to the relay
  gunPresence,     \* the members that announced themselves over Gun
  lastEvent,       \* what the last step did
  relayOrder,      \* the events of the relay in the order of their publication
  late,            \* the clock advanced while an event was undelivered
  \* ---- the timers and the transport of a whole room's election
  hbDue,           \* heartbeat intervals: the steps until the next callback
  wdDue,           \* watchdog intervals: the steps until the next callback
  coInbox,         \* the coordinator messages on their way to a member
  \* ---- signaling server (server.js, the state of one room key)
  clients,         \* state.clients: clientId -> sessionId and lastSeen
  queues,          \* state.queues: clientId -> the messages not polled yet
  sessions,        \* state.sessions: sessionId -> the clientIds of its members
  polled,          \* the response to the last request
  \* ---- relaySignal(payload, targetId) of a PeerCoordinator
  relayCall        \* the last call: who was asked, and what the caller got

roleVars  == <<rolePair, roleOut>>
coordVars == <<joined, coordinatorId, isCoordinator, knownPeers,
               coordinatorHeartbeatTimer, coordinatorElectionTimer,
               electionAnnounced, room, coMsgs, lastElection>>
iceVars   == <<nostrClient, gunEnabled, hybridSignaling, peerSession, icePc,
               iceCreated, outboundIceBatch, iceTimeouts, iceOut, iceGen,
               iceDone, iceExpired, iceClock>>
arbVars   == <<peerPreferredSource, peerSources, lastSignalSource, trackerPeers,
               arbPc, arbPcClosed, arbDc, arbClosing, arbMade, arbCycles, arbRejected>>
relayVars == <<relayPeers, inst, relayLog, gunPresence, lastEvent, relayOrder, late>>
electVars == <<hbDue, wdDue, coInbox>>
serverVars == <<clients, queues, sessions, polled>>
callVars == <<relayCall>>

\* The variables a component leaves alone.
nonRoleVars  == <<coordVars, iceVars, arbVars, relayVars, electVars, serverVars, callVars>>
nonCoordVars == <<roleVars, iceVars, arbVars, relayVars, serverVars, callVars>>
nonIceVars   == <<roleVars, coordVars, arbVars, relayVars, electVars, serverVars, callVars>>
nonArbVars   == <<roleVars, coordVars, iceVars, relayVars, electVars, serverVars, callVars>>
nonRelayVars == <<roleVars, coordVars, iceVars, arbVars, electVars, serverVars, callVars>>
nonServerVars == <<roleVars, coordVars, iceVars, arbVars, relayVars, electVars, callVars>>

-----------------------------------------------------------------------------
(* Bounds *)

MaxIdLen == 2
MaxNow == 20
MaxCands == 3
MaxPcs == 2
MaxMade == 4
MaxRelayNow == 60
MaxMeshNow == 31
MaxConnects == 3
MaxLog == 9
MaxProbes == 3
MaxRelayPcs == 2
MaxQueue == 1
MaxIce == 2
MaxPendingIce == 2
MaxServerNow == 61
MaxIceClock == 600
IceDelay == 100

-----------------------------------------------------------------------------
(* Strings as code-unit tuples *)

\* null, for a PeerId: the empty string (both are falsy in the code's tests).
Null == <<>>
NoTime == -1

\* The characters PeerIds are drawn from: '1', '9', 'a', 'f', 'z'.  The
\* relay PeerId is a lowercase hex public key; "a1" and "z9" are the ids of
\* the specification's scenario.
IdChars == {49, 57, 97, 102, 122}

RECURSIVE StringsUpTo(_)
StringsUpTo(n) ==
  IF n = 0 THEN {<<>>}
  ELSE LET shorter == StringsUpTo(n - 1)
       IN  shorter \cup {Append(s, c) : s \in {t \in shorter : Len(t) = n - 1}, c \in IdChars}

PeerIds == StringsUpTo(MaxIdLen) \ {<<>>}

\* a < b on JavaScript strings: code unit by code unit, a proper prefix first.
RECURSIVE StrLess(_, _)
StrLess(a, b) ==
  IF b = <<>> THEN FALSE
  ELSE IF a = <<>> THEN TRUE
  ELSE IF Head(a) # Head(b) THEN Head(a) < Head(b)
  ELSE StrLess(Tail(a), Tail(b))

\* Collation weights of String.prototype.localeCompare (root collation):
\* the primary weight orders digits before letters and ignores case, the
\* tertiary weight orders a lowercase letter before its uppercase form.
IsDigit(c) == c >= 48 /\ c <= 57
IsLower(c) == c >= 97 /\ c <= 122
IsUpper(c) == c >= 65 /\ c <= 90
PrimaryWeight(c) ==
  IF IsDigit(c) THEN c - 48
  ELSE IF IsLower(c) THEN 10 + (c - 97)
  ELSE IF IsUpper(c) THEN 10 + (c - 65)
  ELSE 100 + c
TertiaryWeight(c) == IF IsUpper(c) THEN 1 ELSE 0

\* Three-way comparison of two weight sequences: -1, 0 or 1.
RECURSIVE SeqCompare(_, _)
SeqCompare(a, b) ==
  IF a = <<>> /\ b = <<>> THEN 0
  ELSE IF a = <<>> THEN -1
  ELSE IF b = <<>> THEN 1
  ELSE IF Head(a) < Head(b) THEN -1
  ELSE IF Head(a) > Head(b) THEN 1
  ELSE SeqCompare(Tail(a), Tail(b))

localeCompare(a, b) ==
  LET pa == [i \in 1..Len(a) |-> PrimaryWeight(a[i])]
      pb == [i \in 1..Len(b) |-> PrimaryWeight(b[i])]
      ta == [i \in 1..Len(a) |-> TertiaryWeight(a[i])]
      tb == [i \in 1..Len(b) |-> TertiaryWeight(b[i])]
      p  == SeqCompare(pa, pb)
  IN  IF p # 0 THEN p ELSE SeqCompare(ta, tb)

-----------------------------------------------------------------------------
(* Role assignment *)

\* main.js shouldInitiateWith, with the local id made a parameter.
shouldInitiateWithFlipped(myPeerId, peerId) ==
  IF myPeerId = Null THEN FALSE ELSE localeCompare(myPeerId, peerId) > 0

shouldInitiateWith(myPeerId, peerId) ==
  IF myPeerId = Null THEN FALSE ELSE localeCompare(myPeerId, peerId) < 0

isPoliteFor(myPeerId, peerId) == ~shouldInitiateWith(myPeerId, peerId)

\* simple-peer-adapter.js chooseDeterministicInitiator (it throws on an
\* empty id; the ids here are never empty).
chooseDeterministicInitiator(localPeerId, remotePeerId) ==
  StrLess(localPeerId, remotePeerId)

RoleInit ==
  /\ rolePair \in {<<a, b>> : a \in PeerIds, b \in PeerIds}
  /\ roleOut = [computed |-> FALSE]

\* Both ends of the pair compute their role, in both places of the code.
ComputeRoles ==
  /\ ~roleOut.computed
  /\ roleOut' = [ computed |-> TRUE,
                  relayA   |-> shouldInitiateWith(rolePair[1], rolePair[2]),
                  relayB   |-> shouldInitiateWith(rolePair[2], rolePair[1]),
                  adapterA |-> chooseDeterministicInitiator(rolePair[1], rolePair[2]),
                  adapterB |-> chooseDeterministicInitiator(rolePair[2], rolePair[1]),
                  politeA  |-> isPoliteFor(rolePair[1], rolePair[2]),
                  politeB  |-> isPoliteFor(rolePair[2], rolePair[1]) ]
  /\ UNCHANGED <<rolePair, now, nonRoleVars>>

-----------------------------------------------------------------------------
(* Coordinator election: src/src/coordinator.js, class PeerCoordinator *)

COORDINATOR_HEARTBEAT_INTERVAL == 5
COORDINATOR_ALIVE_TIMEOUT == 15
PEER_ALIVE_TIMEOUT == 20

\* The room's members: "a1", "f9" and "z9".
A1 == <<97, 49>>
F9 == <<102, 57>>
Z9 == <<122, 57>>
Members == {A1, F9, Z9}

\* Array.prototype.sort() with no comparator orders strings by code units.
RECURSIVE SortIds(_)
SortIds(S) ==
  IF S = {} THEN <<>>
  ELSE LET least == CHOOSE x \in S : \A y \in S : x = y \/ StrLess(x, y)
       IN  <<least>> \o SortIds(S \ {least})

\* The filter of triggerCoordinatorElection: the records seen less than
\* PEER_ALIVE_TIMEOUT ago.
AliveOf(kp, t) == {id \in DOMAIN kp : kp[id] # NoTime /\ t - kp[id] < PEER_ALIVE_TIMEOUT}

\* A buggy election, which takes the last of the sorted candidates (used
\* to test the election properties).
ElectLast(me, force, kp, t, st) ==
  LET candidates == AliveOf(kp, t)
  IN  IF candidates = {}
      THEN [coordinatorId |-> Null, isCoordinator |-> FALSE, heartbeat |-> FALSE]
      ELSE LET newCoordinator == SortIds(candidates)[Cardinality(candidates)]
           IN  IF force \/ st.coordinatorId # newCoordinator
               THEN [coordinatorId |-> newCoordinator,
                     isCoordinator |-> (newCoordinator = me),
                     heartbeat |-> (newCoordinator = me)]
               ELSE st

\* An election that, finding no candidate, clears coordinatorId and leaves
\* the role and the heartbeat as they are (used to test their agreement).
ElectKeepsRole(me, force, kp, t, st) ==
  LET candidates == AliveOf(kp, t)
  IN  IF candidates = {}
      THEN [st EXCEPT !.coordinatorId = Null]
      ELSE LET newCoordinator == Head(SortIds(candidates))
           IN  IF force \/ st.coordinatorId # newCoordinator
               THEN [coordinatorId |-> newCoordinator,
                     isCoordinator |-> (newCoordinator = me),
                     heartbeat |-> (newCoordinator = me)]
               ELSE st

\* triggerCoordinatorElection(force) on the state st = (coordinatorId,
\* isCoordinator, heartbeat timer running) of member me.
Elect(me, force, kp, t, st) ==
  LET candidates == AliveOf(kp, t)
  IN  IF candidates = {}
      THEN [coordinatorId |-> Null, isCoordinator |-> FALSE, heartbeat |-> FALSE]
      ELSE LET newCoordinator == Head(SortIds(candidates))
           IN  IF force \/ st.coordinatorId # newCoordinator
               THEN [coordinatorId |-> newCoordinator,
                     isCoordinator |-> (newCoordinator = me),
                     heartbeat |-> (newCoordinator = me)]
               ELSE st

CoState(m) == [coordinatorId |-> coordinatorId[m],
               isCoordinator |-> isCoordinator[m],
               heartbeat |-> coordinatorHeartbeatTimer[m]]

NoPeers == [id \in Members |-> NoTime]

\* registerPeer: a record is added only for an unknown peer.
registerPeer(kp, peerId, t) ==
  IF kp[peerId] = NoTime THEN [kp EXCEPT ![peerId] = t] ELSE kp

\* updatePeerHeartbeat: lastSeen is refreshed (an unknown peer is registered).
updatePeerHeartbeat(kp, peerId, t) == [kp EXCEPT ![peerId] = t]

RECURSIVE registerAll(_, _, _)
registerAll(kp, ids, t) ==
  IF ids = {} THEN kp
  ELSE LET id == CHOOSE x \in ids : TRUE
       IN  registerAll(registerPeer(kp, id, t), ids \ {id}, t)

\* The election of member m on known peers kp, written to the state.
RunElection(m, force, kp, st) ==
  LET r == Elect(m, force, kp, now, st)
  IN  /\ coordinatorId' = [coordinatorId EXCEPT ![m] = r.coordinatorId]
      /\ isCoordinator' = [isCoordinator EXCEPT ![m] = r.isCoordinator]
      /\ coordinatorHeartbeatTimer' = [coordinatorHeartbeatTimer EXCEPT ![m] = r.heartbeat]
      /\ lastElection' = [member |-> m, force |-> force, alive |-> AliveOf(kp, now),
                          chosen |-> r.coordinatorId, self |-> r.isCoordinator,
                          repeated |-> /\ force
                                       /\ lastElection.member = m
                                       /\ lastElection.force
                                       /\ lastElection.alive = AliveOf(kp, now)]

\* sendSignal(null, payload): the payload is published to the room.
Broadcast(m, payload) == {[from |-> m, payload |-> payload]}

\* initialize(): knownPeers reset to self, announcePresence(), watchdog
\* started, forced election.
initialize(m) ==
  /\ m \in room
  /\ m \notin joined
  /\ joined' = joined \cup {m}
  /\ LET kp == [NoPeers EXCEPT ![m] = now]
     IN  /\ knownPeers' = [knownPeers EXCEPT ![m] = kp]
         /\ RunElection(m, TRUE, kp, CoState(m))
  /\ electionAnnounced' = [electionAnnounced EXCEPT ![m] = TRUE]
  /\ coMsgs' = IF electionAnnounced[m] THEN coMsgs
               ELSE Broadcast(m, [type |-> "coordinator-candidate", candidateId |-> m])
  /\ coordinatorElectionTimer' = [coordinatorElectionTimer EXCEPT ![m] = TRUE]
  /\ UNCHANGED <<now, room, nonCoordVars>>

\* destroy()
destroy(m) ==
  /\ m \in joined
  /\ joined' = joined \ {m}
  /\ coordinatorHeartbeatTimer' = [coordinatorHeartbeatTimer EXCEPT ![m] = FALSE]
  /\ coordinatorElectionTimer' = [coordinatorElectionTimer EXCEPT ![m] = FALSE]
  /\ knownPeers' = [knownPeers EXCEPT ![m] = NoPeers]
  /\ isCoordinator' = [isCoordinator EXCEPT ![m] = FALSE]
  /\ coordinatorId' = [coordinatorId EXCEPT ![m] = Null]
  /\ UNCHANGED <<now, room, electionAnnounced, coMsgs, lastElection, nonCoordVars>>

\* checkCoordinatorHealth(): no coordinator is held, or it has no record, or
\* its record is older than COORDINATOR_ALIVE_TIMEOUT.
CoordinatorLost(m) ==
  LET cid == coordinatorId[m]
  IN  IF cid = Null THEN TRUE
      ELSE IF knownPeers[m][cid] = NoTime THEN TRUE
      ELSE now - knownPeers[m][cid] > COORDINATOR_ALIVE_TIMEOUT

\* The watchdog interval fires: checkCoordinatorHealth().
checkCoordinatorHealth(m) ==
  /\ coordinatorElectionTimer[m]
  /\ CoordinatorLost(m)
  /\ RunElection(m, TRUE, knownPeers[m], [CoState(m) EXCEPT !.coordinatorId = Null])
  /\ UNCHANGED <<now, joined, room, knownPeers, coordinatorElectionTimer, electionAnnounced, coMsgs, nonCoordVars>>

\* The heartbeat interval fires: the heartbeat is broadcast and the
\* member's own lastSeen is refreshed.
coordinatorHeartbeat(m) ==
  /\ coordinatorHeartbeatTimer[m]
  /\ coMsgs' = Broadcast(m, [type |-> "coordinator-heartbeat", coordinatorId |-> m,
                                          knownPeers |-> {id \in Members : knownPeers[m][id] # NoTime}])
  /\ knownPeers' = [knownPeers EXCEPT ![m] = updatePeerHeartbeat(@, m, now)]
  /\ UNCHANGED <<now, joined, room, coordinatorId, isCoordinator, coordinatorHeartbeatTimer,
                 coordinatorElectionTimer, electionAnnounced, lastElection, nonCoordVars>>

\* A handler that registers the peers of a heartbeat's list before it
\* elects (used to test the heartbeat's property).
handleCoordinatorMessageListFirst(m, p) ==
  IF p.type = "coordinator-candidate"
  THEN LET kp == registerPeer(knownPeers[m], p.candidateId, now)
       IN  /\ RunElection(m, FALSE, kp, CoState(m))
           /\ knownPeers' = [knownPeers EXCEPT ![m] = kp]
  ELSE LET kp == registerAll(updatePeerHeartbeat(knownPeers[m], p.coordinatorId, now),
                             p.knownPeers, now)
       IN  /\ RunElection(m, FALSE, kp, CoState(m))
           /\ knownPeers' = [knownPeers EXCEPT ![m] = kp]

\* handleCoordinatorMessage(payload) at member m
handleCoordinatorMessage(m, p) ==
  IF p.type = "coordinator-candidate"
  THEN LET kp == registerPeer(knownPeers[m], p.candidateId, now)
       IN  /\ RunElection(m, FALSE, kp, CoState(m))
           /\ knownPeers' = [knownPeers EXCEPT ![m] = kp]
  ELSE LET kp == updatePeerHeartbeat(knownPeers[m], p.coordinatorId, now)
       IN  /\ RunElection(m, FALSE, kp, CoState(m))
           /\ knownPeers' = [knownPeers EXCEPT ![m] = registerAll(kp, p.knownPeers, now)]

\* The messages a member outside the room can publish: its candidacy, or a
\* heartbeat with the peers it knows (itself among them).
OutsiderPayloads ==
  LET outsiders == Members \ room
  IN  {[type |-> "coordinator-candidate", candidateId |-> o] : o \in outsiders}
      \cup {p \in [type : {"coordinator-heartbeat"}, coordinatorId : outsiders,
                     knownPeers : SUBSET Members] : p.coordinatorId \in p.knownPeers}

\* A message of a member outside the room reaches a member of the room.
outsiderMessage(m, p) ==
  /\ m \in room
  /\ p \in OutsiderPayloads
  /\ handleCoordinatorMessage(m, p)
  /\ UNCHANGED <<now, joined, room, coMsgs, coordinatorElectionTimer, electionAnnounced, nonCoordVars>>

\* A disconnect notice that deletes the record and holds no election (used
\* to test the notice's property).
markPeerDisconnectedOnly(m, peerId) ==
  /\ m \in room
  /\ peerId # m
  /\ knownPeers[m][peerId] # NoTime
  /\ knownPeers' = [knownPeers EXCEPT ![m][peerId] = NoTime]
  /\ UNCHANGED <<coordinatorId, isCoordinator, coordinatorHeartbeatTimer, lastElection>>
  /\ UNCHANGED <<now, joined, room, coordinatorElectionTimer, electionAnnounced, coMsgs, nonCoordVars>>

\* markPeerDisconnected(peerId): an explicit disconnect notice.
markPeerDisconnected(m, peerId) ==
  /\ m \in room
  /\ peerId # m
  /\ knownPeers[m][peerId] # NoTime
  /\ LET kp == [knownPeers[m] EXCEPT ![peerId] = NoTime]
     IN  /\ knownPeers' = [knownPeers EXCEPT ![m] = kp]
         /\ IF peerId = coordinatorId[m]
            THEN RunElection(m, TRUE, kp, CoState(m))
            ELSE UNCHANGED <<coordinatorId, isCoordinator, coordinatorHeartbeatTimer, lastElection>>
  /\ UNCHANGED <<now, joined, room, coordinatorElectionTimer, electionAnnounced, coMsgs, nonCoordVars>>

\* Time passes between two timer callbacks or deliveries: a heartbeat
\* interval, or a shorter delay (a delivery between two timer callbacks).
CoordDelays == {3, COORDINATOR_HEARTBEAT_INTERVAL}

CoordTick ==
  \E d \in CoordDelays :
    /\ now + d <= MaxNow
    /\ now' = now + d
    /\ UNCHANGED <<coordVars, nonCoordVars>>

\* What the caller of relaySignal gets when the message was relayed: the
\* function ends without a return value and without an exception.
Undefined == "undefined"
Relayed == [returned |-> Undefined, threw |-> FALSE]

NoCall == [made |-> FALSE, member |-> Null, targetId |-> Null, coordinator |-> FALSE,
           sent |-> FALSE, warned |-> FALSE, returned |-> Undefined, threw |-> FALSE]

\* relaySignal(payload, targetId) at member m; sendSignal may throw, which
\* is caught.
relaySignal(m, targetId, sendThrows) ==
  /\ m \in joined
  /\ LET refused == ~isCoordinator[m] \/ targetId = Null
         call == [made |-> TRUE, member |-> m, targetId |-> targetId,
                  coordinator |-> isCoordinator[m],
                  sent |-> ~refused /\ ~sendThrows,
                  warned |-> refused \/ sendThrows,
                  returned |-> Undefined, threw |-> FALSE]
     IN  /\ relayCall' = call
         /\ coMsgs' = IF call.sent
                      THEN Broadcast(m, [type |-> "relayed", to |-> targetId, relayedBy |-> m])
                      ELSE coMsgs
  /\ UNCHANGED <<now, joined, room, coordinatorId, isCoordinator, knownPeers,
                 coordinatorHeartbeatTimer, coordinatorElectionTimer, electionAnnounced,
                 lastElection, roleVars, iceVars, arbVars, relayVars, serverVars>>

\* The timers' phases and the transport are not followed here.
Untimed == UNCHANGED electVars

CoordNext ==
  \/ \E m \in Members : initialize(m) /\ Untimed
  \/ \E m \in Members : destroy(m) /\ Untimed
  \/ \E m \in Members : checkCoordinatorHealth(m) /\ Untimed
  \/ \E m \in Members : coordinatorHeartbeat(m) /\ Untimed
  \/ \E m \in Members, p \in OutsiderPayloads : outsiderMessage(m, p) /\ Untimed
  \/ \E m \in Members, p \in Members : markPeerDisconnected(m, p) /\ Untimed
  \/ CoordTick /\ Untimed

\* The callers of relaySignal: a member that is or is not the coordinator
\* is asked to relay, at one instant.
CallNext ==
  \/ \E m \in Members : initialize(m) /\ Untimed
  \/ \E m \in Members : destroy(m) /\ Untimed
  \/ \E m \in Members, p \in OutsiderPayloads : outsiderMessage(m, p) /\ Untimed
  \/ \E m \in Members, p \in Members : markPeerDisconnected(m, p) /\ Untimed
  \/ \E m \in Members, t \in Members \cup {Null}, sendThrows \in BOOLEAN :
        relaySignal(m, t, sendThrows) /\ Untimed

\* ---- a whole room: every member's timers, and the room's transport ----

\* The clock is followed in steps of one heartbeat interval.  Only the age
\* now - lastSeen of a record is ever read, and only against
\* COORDINATOR_ALIVE_TIMEOUT and PEER_ALIVE_TIMEOUT, so a step of the clock
\* is written as every lastSeen falling back by one step, down to an age
\* beyond both timeouts.
ElectStep == COORDINATOR_HEARTBEAT_INTERVAL
StaleAge == PEER_ALIVE_TIMEOUT + ElectStep
HeartbeatSteps == COORDINATOR_HEARTBEAT_INTERVAL \div ElectStep
WatchdogSteps == COORDINATOR_ALIVE_TIMEOUT \div ElectStep

Older(t) == IF t = NoTime THEN NoTime
            ELSE IF t - ElectStep < now - StaleAge THEN now - StaleAge
            ELSE t - ElectStep

\* startCoordinatorHeartbeat(): the election of member m that has just run
\* has (re)started m's heartbeat interval.
HeartbeatRestarted(m) ==
  /\ lastElection'.member = m
  /\ lastElection'.self
  /\ lastElection'.force \/ coordinatorId[m] # m

\* The phase of m's heartbeat interval after a step in which m ran an
\* election (ran = TRUE) or not.
NextHeartbeat(m, ran) ==
  hbDue' = [hbDue EXCEPT ![m] = IF ~coordinatorHeartbeatTimer'[m] THEN 0
                                ELSE IF ran /\ HeartbeatRestarted(m) THEN HeartbeatSteps
                                ELSE @]

\* sendSignal(null, payload): what coMsgs' holds goes to every other member.
Publish(m) ==
  coInbox' = coInbox \cup {[to |-> r, from |-> x.from, payload |-> x.payload] :
                              r \in joined \ {m}, x \in coMsgs'}

\* A member joins the room (once).
roomInitialize(m) ==
  /\ ~electionAnnounced[m]
  /\ initialize(m)
  /\ Publish(m)
  /\ NextHeartbeat(m, TRUE)
  /\ wdDue' = [wdDue EXCEPT ![m] = WatchdogSteps]

\* A member stops; no disconnect notice reaches the others (once in the
\* life of the room).
roomDestroy(m) ==
  /\ \A x \in Members : electionAnnounced[x] => x \in joined
  /\ destroy(m)
  /\ coInbox' = {x \in coInbox : x.to # m}
  /\ hbDue' = [hbDue EXCEPT ![m] = 0]
  /\ wdDue' = [wdDue EXCEPT ![m] = 0]

\* The watchdog interval of m is due: checkCoordinatorHealth(), which does
\* nothing when the coordinator was heard in time.
roomWatchdog(m) ==
  /\ coordinatorElectionTimer[m]
  /\ wdDue[m] = 0
  /\ wdDue' = [wdDue EXCEPT ![m] = WatchdogSteps]
  /\ IF CoordinatorLost(m)
     THEN checkCoordinatorHealth(m) /\ NextHeartbeat(m, TRUE)
     ELSE UNCHANGED <<now, coordVars, nonCoordVars, hbDue>>
  /\ UNCHANGED coInbox

\* The heartbeat interval of m is due.
roomHeartbeat(m) ==
  /\ hbDue[m] = 0
  /\ coordinatorHeartbeat(m)
  /\ Publish(m)
  /\ hbDue' = [hbDue EXCEPT ![m] = HeartbeatSteps]
  /\ UNCHANGED wdDue

\* A coordinator message reaches a member.
roomDeliver(x) ==
  /\ x \in coInbox
  /\ coInbox' = coInbox \ {x}
  /\ handleCoordinatorMessage(x.to, x.payload)
  /\ NextHeartbeat(x.to, TRUE)
  /\ UNCHANGED <<now, joined, room, coMsgs, coordinatorElectionTimer, electionAnnounced,
                 nonCoordVars, wdDue>>

\* One step of the clock, when no callback is due and no message is on its
\* way.
roomTick ==
  /\ coInbox = {}
  /\ \A m \in Members : /\ coordinatorHeartbeatTimer[m] => hbDue[m] > 0
                        /\ coordinatorElectionTimer[m] => wdDue[m] > 0
  /\ knownPeers' = [m \in Members |-> [id \in Members |-> Older(knownPeers[m][id])]]
  /\ hbDue' = [m \in Members |-> IF coordinatorHeartbeatTimer[m] THEN hbDue[m] - 1 ELSE 0]
  /\ wdDue' = [m \in Members |-> IF coordinatorElectionTimer[m] THEN wdDue[m] - 1 ELSE 0]
  /\ UNCHANGED <<now, joined, room, coordinatorId, isCoordinator, coordinatorHeartbeatTimer,
                 coordinatorElectionTimer, electionAnnounced, coMsgs, lastElection,
                 nonCoordVars, coInbox>>

RoomNext ==
  \/ \E m \in Members : roomInitialize(m)
  \/ \E m \in Members : roomDestroy(m)
  \/ \E m \in Members : roomWatchdog(m)
  \/ \E m \in Members : roomHeartbeat(m)
  \/ \E x \in coInbox : roomDeliver(x)
  \/ roomTick

-----------------------------------------------------------------------------
(* Candidate batcher: src/src/main.js, pc.onicecandidate *)

\* The k-th candidate of the g-th connection is <<g, k>>; event.candidate is
\* null for the end-of-candidates signal.
NullCandidate == <<0, 0>>
NoBatch == [has |-> FALSE, candidates |-> <<>>, timer |-> FALSE]

\* The delay of the batch timer, setTimeout(flush, 250).
ICE_BATCH_MS == 250

\* A batcher that re-arms its timer on every candidate: the pending
\* timeout of the entry, the one armed last, is cleared and a new one set.
armTimerAnew(entry, timeouts, pc, t) ==
  Append(IF entry.timer THEN SubSeq(timeouts, 1, Len(timeouts) - 1) ELSE timeouts,
         [pc |-> pc, due |-> t + ICE_BATCH_MS])

\* A batcher that sets the timer field and no timeout.
armTimerNever(entry, timeouts, pc, t) == timeouts

\* if (!entry.timer) entry.timer = setTimeout(flush, 250): a timeout is set
\* only while the entry holds none.
armTimer(entry, timeouts, pc, t) ==
  IF entry.timer THEN timeouts
  ELSE Append(timeouts, [pc |-> pc, due |-> t + ICE_BATCH_MS])

\* sendSignal(peerId, payload) of a candidate batch: it rejects when the
\* relay client is not set or no session of the peer is known, and the
\* rejection is logged.
sendSignalBatch(out, batch) ==
  IF nostrClient /\ peerSession
  THEN Append(out, [type |-> "signal-ice-batch", via |-> "Nostr", candidates |-> batch])
  ELSE out

\* flush(): the timer field is cleared, and the pending candidates, if any,
\* are spliced out and sent as one batch.
flush(entry, out) ==
  IF entry.candidates = <<>>
  THEN [entry |-> [entry EXCEPT !.timer = FALSE], out |-> out]
  ELSE [entry |-> [entry EXCEPT !.timer = FALSE, !.candidates = <<>>],
        out   |-> sendSignalBatch(out, entry.candidates)]

\* connectNostr(): the toggles are read; with the relay enabled the relay
\* state is cleared, the connections are closed and a relay is selected (ok)
\* or none accepts (the function throws); then hybrid signaling is created.
iceConnectNostr(nostrEnabled, gunOn, ok) ==
  /\ nostrEnabled \/ gunOn
  /\ gunEnabled' = gunOn
  /\ IF nostrEnabled
     THEN /\ nostrClient' = ok
          /\ peerSession' = FALSE
          /\ icePc' = 0
     ELSE UNCHANGED <<nostrClient, peerSession, icePc>>
  /\ hybridSignaling' = IF (nostrEnabled => ok) /\ gunOn THEN TRUE ELSE hybridSignaling
  /\ UNCHANGED <<iceCreated, outboundIceBatch, iceTimeouts, iceOut, iceGen, iceDone,
                 iceExpired, iceClock, now, nonIceVars>>

\* window.disconnect()
iceDisconnect ==
  /\ nostrClient \/ hybridSignaling
  /\ IF nostrClient
     THEN /\ nostrClient' = FALSE
          /\ peerSession' = FALSE
          /\ icePc' = 0
     ELSE UNCHANGED <<nostrClient, peerSession, icePc>>
  /\ hybridSignaling' = FALSE
  /\ UNCHANGED <<gunEnabled, iceCreated, outboundIceBatch, iceTimeouts, iceOut, iceGen,
                 iceDone, iceExpired, iceClock, now, nonIceVars>>

\* onPayload learns the session of the peer from a relay message.
iceLearnSession ==
  /\ nostrClient
  /\ ~peerSession
  /\ peerSession' = TRUE
  /\ UNCHANGED <<nostrClient, gunEnabled, hybridSignaling, icePc, iceCreated,
                 outboundIceBatch, iceTimeouts, iceOut, iceGen, iceDone, iceExpired,
                 iceClock, now, nonIceVars>>

\* createPeerConnection(peerId, ...) when the peer has no RTCPeerConnection:
\* a new connection is registered and starts gathering.  It is called on a
\* relay message of a peer whose session is known (ensurePeerConnection in
\* onPayload), or on a Gun discovery or signal.
iceCreatePeerConnection ==
  /\ icePc = 0
  /\ iceCreated < MaxPcs
  /\ (nostrClient /\ peerSession) \/ (hybridSignaling /\ gunEnabled)
  /\ iceCreated' = iceCreated + 1
  /\ icePc' = iceCreated + 1
  /\ iceGen' = <<>>
  /\ iceDone' = FALSE
  /\ iceExpired' = FALSE
  /\ UNCHANGED <<nostrClient, gunEnabled, hybridSignaling, peerSession,
                 outboundIceBatch, iceTimeouts, iceOut, iceClock, now, nonIceVars>>

\* resetPeerConnection(peerId) closes the connection of the peer.
iceResetPeerConnection ==
  /\ icePc # 0
  /\ icePc' = 0
  /\ UNCHANGED <<nostrClient, gunEnabled, hybridSignaling, peerSession, iceCreated,
                 outboundIceBatch, iceTimeouts, iceOut, iceGen, iceDone, iceExpired,
                 iceClock, now, nonIceVars>>

\* pc.onicecandidate(event) with event.candidate = c.  The legacy client is
\* never set (connectWebRTC has no caller), so its branch is not taken.
onicecandidate(c) ==
  /\ icePc # 0
  /\ ~iceDone
  /\ IF c = NullCandidate THEN TRUE
     ELSE c = <<icePc, Len(iceGen) + 1>> /\ Len(iceGen) < MaxCands
  /\ iceGen' = IF c = NullCandidate THEN iceGen ELSE Append(iceGen, c)
  /\ iceDone' = (c = NullCandidate)
  /\ IF ~nostrClient /\ gunEnabled /\ hybridSignaling /\ c # NullCandidate
     THEN /\ iceOut' = Append(iceOut, [type |-> "ice", via |-> "Gun", candidates |-> <<c>>])
          /\ UNCHANGED <<outboundIceBatch, iceTimeouts>>
     ELSE IF ~nostrClient
     THEN UNCHANGED <<outboundIceBatch, iceTimeouts, iceOut>>
     ELSE LET entry == IF c = NullCandidate
                       THEN [outboundIceBatch EXCEPT !.has = TRUE]
                       ELSE [outboundIceBatch EXCEPT !.has = TRUE,
                                                     !.candidates = Append(@, c)]
          IN  IF c = NullCandidate
              THEN LET f == flush(entry, iceOut)
                   IN  /\ outboundIceBatch' = f.entry
                       /\ iceOut' = f.out
                       /\ UNCHANGED iceTimeouts
              ELSE /\ outboundIceBatch' = [entry EXCEPT !.timer = TRUE]
                   /\ iceTimeouts' = armTimer(entry, iceTimeouts, icePc, iceClock)
                   /\ UNCHANGED iceOut
  /\ UNCHANGED <<nostrClient, gunEnabled, hybridSignaling, peerSession, icePc,
                 iceCreated, iceExpired, iceClock, now, nonIceVars>>

\* The oldest pending timeout fires: flush().
iceTimerFires ==
  /\ iceTimeouts # <<>>
  /\ iceTimeouts' = Tail(iceTimeouts)
  /\ LET f == flush(outboundIceBatch, iceOut)
     IN  /\ outboundIceBatch' = f.entry
         /\ iceOut' = f.out
  /\ iceExpired' = (iceExpired \/ (Head(iceTimeouts).pc = icePc /\ ~iceDone))
  /\ UNCHANGED <<nostrClient, gunEnabled, hybridSignaling, peerSession, icePc,
                 iceCreated, iceGen, iceDone, iceClock, now, nonIceVars>>

IceNext ==
  \/ \E nostrEnabled, gunOn, ok \in BOOLEAN : iceConnectNostr(nostrEnabled, gunOn, ok)
  \/ iceDisconnect
  \/ iceLearnSession
  \/ iceCreatePeerConnection
  \/ iceResetPeerConnection
  \/ \E k \in 1..MaxCands, g \in 1..MaxPcs : onicecandidate(<<g, k>>)
  \/ onicecandidate(NullCandidate)
  \/ iceTimerFires

\* Time passes, up to the moment the oldest pending timeout is due: a
\* timeout that is due fires before the clock moves on.
iceTick ==
  /\ iceClock < MaxIceClock
  /\ iceTimeouts # <<>> => Head(iceTimeouts).due > iceClock
  /\ LET t == IF iceClock + IceDelay > MaxIceClock THEN MaxIceClock
               ELSE iceClock + IceDelay
     IN  iceClock' = IF iceTimeouts # <<>> /\ Head(iceTimeouts).due < t
                     THEN Head(iceTimeouts).due ELSE t
  /\ UNCHANGED <<nostrClient, gunEnabled, hybridSignaling, peerSession, icePc,
                 iceCreated, outboundIceBatch, iceTimeouts, iceOut, iceGen, iceDone,
                 iceExpired, now, nonIceVars>>

\* The timeout that is due fires.
iceTimerDue ==
  /\ iceTimeouts # <<>>
  /\ Head(iceTimeouts).due <= iceClock
  /\ iceTimerFires

\* The batcher under its clock, with the relay connected once.
BatchNext ==
  \/ \E ok \in BOOLEAN : ~nostrClient /\ iceConnectNostr(TRUE, FALSE, ok)
  \/ iceLearnSession
  \/ iceCreatePeerConnection
  \/ iceResetPeerConnection
  \/ \E k \in 1..MaxCands, g \in 1..MaxPcs : onicecandidate(<<g, k>>)
  \/ onicecandidate(NullCandidate)
  \/ iceTimerDue
  \/ iceTick

\* The page as loaded: nothing connected, gunEnabled defaults to true.
IceIdle ==
  /\ nostrClient = FALSE
  /\ gunEnabled = TRUE
  /\ hybridSignaling = FALSE
  /\ peerSession = FALSE
  /\ icePc = 0
  /\ iceCreated = 0
  /\ outboundIceBatch = NoBatch
  /\ iceTimeouts = <<>>
  /\ iceOut = <<>>
  /\ iceGen = <<>>
  /\ iceDone = FALSE
  /\ iceExpired = FALSE
  /\ iceClock = 0

-----------------------------------------------------------------------------
(* Transport arbitration: src/src/main.js, setPreferredSource and callers *)

NoChannel == [state |-> "none", hint |-> "none"]

\* The part of the state setPreferredSource reads and writes.
ArbState == [preferred |-> peerPreferredSource, tracker |-> trackerPeers,
             pc |-> arbPc, closed |-> arbPcClosed, dc |-> arbDc,
             closing |-> arbClosing]

\* A setPreferredSource whose "already chosen" test is missing (used to
\* test the arbitration properties).
setPreferredSourceAlways(st, source) ==
  IF source = "none" THEN st
  ELSE IF source = "Tracker"
  THEN IF st.pc
       THEN [st EXCEPT !.preferred = source, !.pc = FALSE, !.closed = FALSE,
                       !.dc = NoChannel,
                       !.closing = IF st.dc.state = "none" THEN @ ELSE @ + 1]
       ELSE [st EXCEPT !.preferred = source]
  ELSE [st EXCEPT !.preferred = source, !.tracker = "none"]

\* setPreferredSource(peerId, source): the first source is recorded and the
\* connection of the other kind is closed; a later call returns early.
setPreferredSource(st, source) ==
  IF source = "none" THEN st
  ELSE IF st.preferred # "none" THEN st
  ELSE IF source = "Tracker"
  THEN IF st.pc
       THEN [st EXCEPT !.preferred = source, !.pc = FALSE, !.closed = FALSE,
                       !.dc = NoChannel,
                       !.closing = IF st.dc.state = "none" THEN @ ELSE @ + 1]
       ELSE [st EXCEPT !.preferred = source]
  ELSE [st EXCEPT !.preferred = source, !.tracker = "none"]

\* The state st written back.
ArbWrite(st) ==
  /\ peerPreferredSource' = st.preferred
  /\ trackerPeers' = st.tracker
  /\ arbPc' = st.pc
  /\ arbPcClosed' = st.closed
  /\ arbDc' = st.dc
  /\ arbClosing' = st.closing

\* a || b on source labels.
OrElse(a, b) == IF a # "none" THEN a ELSE b

\* The peer is seen on a transport: onPayload records "Nostr", a discovery
\* records its source unless one is recorded.
arbPeerSeen(source) ==
  /\ peerSources' = IF source = "Nostr" THEN "Nostr" ELSE OrElse(peerSources, source)
  /\ peerSources' # peerSources
  /\ UNCHANGED <<peerPreferredSource, lastSignalSource, trackerPeers, arbPc, arbPcClosed,
                 arbDc,
                 arbClosing, arbMade, arbCycles, arbRejected, now, nonArbVars>>

\* onSignal: the transport of the last signal is recorded.
arbOnSignal(source) ==
  /\ lastSignalSource # source
  /\ lastSignalSource' = source
  /\ UNCHANGED <<peerPreferredSource, peerSources, trackerPeers, arbPc, arbPcClosed,
                 arbDc,
                 arbClosing, arbMade, arbCycles, arbRejected, now, nonArbVars>>

\* createPeerConnection and setupDataChannel(peerId, channel, sourceHint): as
\* initiator over the relay (hint: last signal source or "Nostr"), on
\* ondatachannel (hint: last signal source or null), or in initiateGunWebRTC
\* (hint "Gun").  A second channel of the peer is not set up.
arbSetupDataChannel(how) ==
  /\ arbMade < MaxMade
  /\ arbDc.state = "none"
  /\ ~arbPcClosed
  /\ how = "gun" => peerPreferredSource \in {"none", "Gun"}
  /\ arbPc' = TRUE
  /\ arbPcClosed' = FALSE
  /\ arbDc' = [state |-> "connecting",
               hint  |-> CASE how = "initiator" -> OrElse(lastSignalSource, "Nostr")
                           [] how = "remote"    -> lastSignalSource
                           [] how = "gun"       -> "Gun"]
  /\ arbMade' = arbMade + 1
  /\ UNCHANGED <<peerPreferredSource, peerSources, lastSignalSource, trackerPeers,
                 arbClosing, arbCycles, arbRejected, now, nonArbVars>>

\* The transport a channel that opens is attributed to: the hint of its
\* setup, else the transport of the last signal, else "Nostr".
Chosen == OrElse(arbDc.hint, OrElse(lastSignalSource, "Nostr"))

\* A dataChannel.onopen without the test of the preferred transport (used
\* to test the arbitration's teardown).
arbChannelOpenUntested ==
  /\ arbDc.state = "connecting"
  /\ peerSources' = OrElse(peerSources, Chosen)
  /\ ArbWrite(setPreferredSource([ArbState EXCEPT !.dc.state = "open"], Chosen))
  /\ UNCHANGED <<arbRejected, lastSignalSource, arbMade, arbCycles, now, nonArbVars>>

\* dataChannel.onopen
arbChannelOpen ==
  /\ arbDc.state = "connecting"
  /\ LET chosen == OrElse(arbDc.hint, OrElse(lastSignalSource, "Nostr"))
     IN  IF peerPreferredSource # "none" /\ peerPreferredSource # chosen
         THEN /\ arbDc' = NoChannel
              /\ arbClosing' = arbClosing + 1
              /\ arbPc' = arbPc
              /\ arbPcClosed' = arbPc
              /\ arbRejected' = arbRejected + 1
              /\ UNCHANGED <<peerPreferredSource, peerSources, trackerPeers>>
         ELSE /\ peerSources' = OrElse(peerSources, chosen)
              /\ ArbWrite(setPreferredSource([ArbState EXCEPT !.dc.state = "open"], chosen))
              /\ UNCHANGED arbRejected
  /\ UNCHANGED <<lastSignalSource, arbMade, arbCycles, now, nonArbVars>>

\* The connection drops: the channel in dataChannels closes.
arbChannelDrops ==
  /\ arbDc.state # "none"
  /\ arbDc' = [arbDc EXCEPT !.state = "closed"]
  /\ arbDc.state # "closed"
  /\ arbClosing' = arbClosing + 1
  /\ arbCycles' = IF arbDc.state = "open" /\ peerPreferredSource \in {"Nostr", "Gun"}
                  THEN arbCycles + 1 ELSE arbCycles
  /\ UNCHANGED <<peerPreferredSource, peerSources, lastSignalSource, trackerPeers,
                 arbPc, arbPcClosed, arbMade, arbRejected, now, nonArbVars>>

\* dataChannel.onclose of a closed channel: dataChannels.delete(peerId).
arbChannelOnClose ==
  /\ arbClosing > 0
  /\ arbClosing' = arbClosing - 1
  /\ arbDc' = NoChannel
  /\ UNCHANGED <<peerPreferredSource, peerSources, lastSignalSource, trackerPeers,
                 arbPc, arbPcClosed, arbMade, arbCycles, arbRejected, now, nonArbVars>>

\* attachTrackerPeer(peerId, peer) on a tracker discovery (which records
\* the source first).
attachTrackerPeer ==
  /\ arbMade < MaxMade
  /\ peerSources' = OrElse(peerSources, "Tracker")
  /\ arbMade' = arbMade + 1
  /\ trackerPeers' = IF peerSources' # "Tracker" THEN trackerPeers
                     ELSE IF trackerPeers # "none" THEN trackerPeers
                     ELSE "attached"
  /\ UNCHANGED <<peerPreferredSource, lastSignalSource, arbPc, arbPcClosed, arbDc, arbClosing,
                 arbCycles, arbRejected, now, nonArbVars>>

\* peer.on('connect') of the attached tracker peer.
arbTrackerConnect ==
  /\ trackerPeers = "attached"
  /\ peerSources' = OrElse(peerSources, "Tracker")
  /\ LET st == setPreferredSource([ArbState EXCEPT !.tracker = "connected"], "Tracker")
     IN  ArbWrite(IF st.preferred # "Tracker" THEN [st EXCEPT !.tracker = "none"] ELSE st)
  /\ arbRejected' = IF peerPreferredSource \in {"Nostr", "Gun"}
                    THEN arbRejected + 1 ELSE arbRejected
  /\ UNCHANGED <<lastSignalSource, arbMade, arbCycles, now, nonArbVars>>

\* peer.on('close') of the tracker peer in trackerPeers.
arbTrackerClose ==
  /\ trackerPeers # "none"
  /\ trackerPeers' = "none"
  /\ arbCycles' = IF trackerPeers = "connected" /\ peerPreferredSource = "Tracker"
                  THEN arbCycles + 1 ELSE arbCycles
  /\ UNCHANGED <<peerPreferredSource, peerSources, lastSignalSource, arbPc, arbPcClosed, arbDc,
                 arbClosing, arbMade, arbRejected, now, nonArbVars>>

\* updatePeerList() calls enforcePreferredConnections().
enforcePreferredConnections ==
  /\ peerPreferredSource # "none"
  /\ IF peerPreferredSource = "Tracker"
     THEN /\ arbPc
          /\ arbPc' = FALSE
          /\ arbPcClosed' = FALSE
          /\ arbDc' = NoChannel
          /\ arbClosing' = IF arbDc.state \in {"none", "closed"} THEN arbClosing
                           ELSE arbClosing + 1
          /\ UNCHANGED trackerPeers
     ELSE /\ trackerPeers # "none"
          /\ trackerPeers' = "none"
          /\ UNCHANGED <<arbPc, arbPcClosed, arbDc, arbClosing>>
  /\ UNCHANGED <<peerPreferredSource, peerSources, lastSignalSource, arbMade,
                 arbCycles, arbRejected, now, nonArbVars>>

\* connectNostr() with the relay enabled, or window.disconnect() (which also
\* destroys the tracker peers): the connections are closed and the tables
\* of connections and channels cleared.
arbTeardown(disconnect) ==
  /\ arbPc \/ arbDc.state # "none" \/ (disconnect /\ trackerPeers # "none")
  /\ arbPc' = FALSE
  /\ arbPcClosed' = FALSE
  /\ arbDc' = NoChannel
  /\ arbClosing' = IF arbDc.state \in {"none", "closed"} THEN arbClosing
                   ELSE arbClosing + 1
  /\ trackerPeers' = IF disconnect THEN "none" ELSE trackerPeers
  /\ arbCycles' = IF \/ arbDc.state = "open" /\ peerPreferredSource \in {"Nostr", "Gun"}
                     \/ /\ disconnect /\ trackerPeers = "connected"
                        /\ peerPreferredSource = "Tracker"
                  THEN arbCycles + 1 ELSE arbCycles
  /\ UNCHANGED <<peerPreferredSource, peerSources, lastSignalSource, arbMade,
                 arbRejected, now, nonArbVars>>

ArbNext ==
  \/ \E source \in {"Nostr", "Gun", "Tracker"} : arbPeerSeen(source)
  \/ \E source \in {"Nostr", "Gun"} : arbOnSignal(source)
  \/ \E how \in {"initiator", "remote", "gun"} : arbSetupDataChannel(how)
  \/ arbChannelOpen
  \/ arbChannelDrops
  \/ arbChannelOnClose
  \/ attachTrackerPeer
  \/ arbTrackerConnect
  \/ arbTrackerClose
  \/ enforcePreferredConnections
  \/ \E disconnect \in BOOLEAN : arbTeardown(disconnect)

\* The page as loaded: the peer is unknown.
ArbIdle ==
  /\ peerPreferredSource = "none"
  /\ peerSources = "none"
  /\ lastSignalSource = "none"
  /\ trackerPeers = "none"
  /\ arbPc = FALSE
  /\ arbPcClosed = FALSE
  /\ arbDc = NoChannel
  /\ arbClosing = 0
  /\ arbMade = 0
  /\ arbCycles = 0
  /\ arbRejected = 0

-----------------------------------------------------------------------------
(* Relay negotiation: src/src/main.js, onPayload and the functions it calls *)

PROBE_ACK_MAX_AGE == 30
RESYNC_THROTTLE == 3

\* A session token is <<member, k>>, a probeId <<member, n>>, the identity
\* of an RTCPeerConnection (and of the description it creates) <<member, n>>.
\* A connection's ice is the set of remote candidates added to it.
NoSession == <<>>
NoProbe == <<>>
NoPc == <<>>
NoSdp == [type |-> "none", id |-> NoPc, re |-> NoPc]
NoProbeState == [has |-> FALSE, session |-> NoSession, ts |-> NoTime, probeId |-> NoProbe]
NoCreating == [id |-> NoPc, via |-> "none"]

\* An entry of peerConnections: no entry, the null placeholder of a peer
\* seen, or an RTCPeerConnection with its signaling state and descriptions.
AbsentPc == [kind |-> "absent", id |-> NoPc, signalingState |-> "closed",
             local |-> NoSdp, remote |-> NoSdp, ice |-> {}]
SeenPc == [AbsentPc EXCEPT !.kind = "seen"]
NewPc(id) == [kind |-> "pc", id |-> id, signalingState |-> "stable",
              local |-> NoSdp, remote |-> NoSdp, ice |-> {}]

\* An object of the browser that is open: an RTCPeerConnection ("pc") or
\* the data channel created on it ("dc"), with the peer it was made for.
Open(kind, id, peer) == [kind |-> kind, id |-> id, peer |-> peer]

\* pc.close() closes the connection and the channels on it.
Close(open, id) == {o \in open : o.id # id}

\* A relay payload with its sender.
Msg(type, from) ==
  [type |-> type, from |-> from, to |-> Null, toSession |-> NoSession,
   fromSession |-> NoSession, session |-> NoSession, probeId |-> NoProbe,
   sdp |-> NoSdp]

\* What a step did, for the properties.
Event(kind, at, peer) == [kind |-> kind, at |-> at, peer |-> peer]

\* The module state of a tab as loaded.
FreshInst ==
  [nostrClient |-> FALSE, hybridSignaling |-> FALSE, mySessionNonce |-> NoSession,
   peerSessions |-> [p \in Members |-> NoSession],
   peerProbeState |-> [p \in Members |-> NoProbeState],
   peerResyncState |-> [p \in Members |-> NoTime],
   readyPeers |-> {}, peerConnections |-> [p \in Members |-> AbsentPc],
   dataChannels |-> {}, initiatedPeers |-> {}, gunPeers |-> {},
   creating |-> [p \in Members |-> NoCreating],
   answering |-> [p \in Members |-> NoPc],
   pendingIce |-> [p \in Members |-> <<>>],
   open |-> {},
   seen |-> {},
   sessions |-> 0, probes |-> 0, pcs |-> 0, connects |-> 0]

\* sendSignal(to, payload): the events it publishes (none when it throws).
sendSignal(st, me, to, payload) ==
  LET toSession == st.peerSessions[to]
      needsToSession == payload.type # "probe"
  IN  IF ~st.nostrClient \/ (needsToSession /\ toSession = NoSession) THEN {}
      ELSE {[payload EXCEPT !.from = me, !.to = to,
                            !.toSession = IF needsToSession THEN toSession ELSE NoSession,
                            !.fromSession = st.mySessionNonce]}

\* sendSignalToSession(to, payload, toSession)
sendSignalToSession(st, me, to, payload, toSession) ==
  IF ~st.nostrClient \/ toSession = NoSession THEN {}
  ELSE {[payload EXCEPT !.from = me, !.to = to, !.toSession = toSession,
                        !.fromSession = st.mySessionNonce]}

\* A handler's result: the new state, the events published, what it did.
Result(st, out, ev) == [st |-> st, out |-> out, ev |-> ev]

\* The probe a tab issues: a fresh probeId, recorded with the session and
\* the time.
IssueProbe(st, me, peerId, session, t) ==
  LET probeId == <<me, st.probes + 1>>
      st1 == [st EXCEPT !.probes = @ + 1,
                        !.peerProbeState[peerId] =
                           [has |-> TRUE, session |-> session, ts |-> t, probeId |-> probeId]]
  IN  [st |-> st1,
       out |-> sendSignal(st1, me, peerId, [Msg("probe", me) EXCEPT !.probeId = probeId])]

\* A probing that does not test the role (used to test the probes' property).
maybeProbePeerAnyRole(st, me, peerId, t) ==
  LET session == st.peerSessions[peerId]
      last == st.peerProbeState[peerId]
  IN  IF ~st.nostrClient THEN [st |-> st, out |-> {}]
      ELSE IF session = NoSession THEN [st |-> st, out |-> {}]
      ELSE IF last.has /\ last.session = session THEN [st |-> st, out |-> {}]
      ELSE IssueProbe(st, me, peerId, session, t)

\* maybeProbePeer(peerId)
maybeProbePeer(st, me, peerId, t) ==
  LET session == st.peerSessions[peerId]
      last == st.peerProbeState[peerId]
  IN  IF ~st.nostrClient THEN [st |-> st, out |-> {}]
      ELSE IF session = NoSession THEN [st |-> st, out |-> {}]
      ELSE IF ~shouldInitiateWith(me, peerId) THEN [st |-> st, out |-> {}]
      ELSE IF last.has /\ last.session = session THEN [st |-> st, out |-> {}]
      ELSE IssueProbe(st, me, peerId, session, t)

\* A resync without the throttle (used to test the throttle's property).
resyncPeerSessionUnthrottled(st, me, peerId, t) ==
  IF ~st.nostrClient THEN [st |-> st, out |-> {}]
  ELSE IssueProbe([st EXCEPT !.peerResyncState[peerId] = t], me, peerId,
                  st.peerSessions[peerId], t)

\* resyncPeerSession(peerId): a probe, at most one every 3 s per peer.
resyncPeerSession(st, me, peerId, t) ==
  LET last == st.peerResyncState[peerId]
  IN  IF ~st.nostrClient THEN [st |-> st, out |-> {}]
      ELSE IF last # NoTime /\ t - last < RESYNC_THROTTLE THEN [st |-> st, out |-> {}]
      ELSE IssueProbe([st EXCEPT !.peerResyncState[peerId] = t], me, peerId,
                      st.peerSessions[peerId], t)

\* createPeerConnection(peerId, shouldInitiate) up to its first await: the
\* connection is registered; an initiator sets up the data channel and
\* starts createOffer().
createPeerConnection(st, me, peerId, shouldInitiate) ==
  IF st.peerConnections[peerId].kind = "pc" THEN st
  ELSE LET id == <<me, st.pcs + 1>>
       IN  [st EXCEPT !.pcs = @ + 1,
                      !.peerConnections[peerId] = NewPc(id),
                      !.pendingIce[peerId] = <<>>,
                      !.open = @ \cup {Open("pc", id, peerId)}
                                 \cup (IF shouldInitiate THEN {Open("dc", id, peerId)} ELSE {}),
                      !.dataChannels = IF shouldInitiate THEN @ \cup {peerId} ELSE @,
                      !.creating[peerId] = IF shouldInitiate
                                           THEN [id |-> id, via |-> "Nostr"] ELSE @]

\* ensurePeerConnection(peerId): the initiator creates a connection only
\* for a ready peer.
ensurePeerConnection(st, me, peerId) ==
  IF peerId = Null \/ peerId = me THEN st
  ELSE IF st.peerConnections[peerId].kind = "pc" THEN st
  ELSE IF shouldInitiateWith(me, peerId) /\ peerId \notin st.readyPeers THEN st
  ELSE createPeerConnection(st, me, peerId, shouldInitiateWith(me, peerId))

\* A reset that unregisters the connection and leaves it open (used to test
\* the reset's property).
resetPeerConnectionLeavesOpen(st, me, peerId) ==
  ensurePeerConnection([st EXCEPT !.peerConnections[peerId] = AbsentPc,
                                  !.pendingIce[peerId] = <<>>,
                                  !.dataChannels = @ \ {peerId},
                                  !.creating[peerId] = NoCreating], me, peerId)

\* resetPeerConnection(peerId): the connection and the channel are closed
\* and removed, then ensurePeerConnection.  A createOffer() pending on the
\* closed connection rejects, and its caller sends nothing.
resetPeerConnection(st, me, peerId) ==
  ensurePeerConnection([st EXCEPT !.peerConnections[peerId] = AbsentPc,
                                  !.open = Close(@, st.peerConnections[peerId].id),
                                  !.pendingIce[peerId] = <<>>,
                                  !.dataChannels = @ \ {peerId},
                                  !.creating[peerId] = NoCreating], me, peerId)

\* A candidate handling that adds to the connection at once (used to test
\* the candidates' property).
addIceCandidateAtOnce(st, peerId, candidate) ==
  IF st.peerConnections[peerId].kind # "pc" THEN st
  ELSE [st EXCEPT !.peerConnections[peerId].ice = @ \cup {candidate}]

\* The candidates new RTCIceCandidate() or pc.addIceCandidate() rejects.
MalformedCandidates == {0}

\* addIceCandidateSafely(peerId, candidate): without a connection the
\* candidate is dropped, without a remote description it is queued,
\* otherwise it is added to the connection.
addIceCandidateSafely(st, peerId, candidate) ==
  LET pc == st.peerConnections[peerId]
  IN  IF pc.kind # "pc" THEN st
      ELSE IF pc.remote = NoSdp
      THEN [st EXCEPT !.pendingIce[peerId] = Append(@, candidate)]
      ELSE [st EXCEPT !.peerConnections[peerId].ice = @ \cup {candidate}]

\* flushPendingIce(peerId): the queued candidates are added to a connection
\* that has its remote description, and the queue is deleted.  A candidate
\* the connection rejects is logged and passed over.
flushPendingIce(st, peerId) ==
  LET pc == st.peerConnections[peerId]
      list == st.pendingIce[peerId]
  IN  IF pc.kind # "pc" THEN st
      ELSE IF pc.remote = NoSdp THEN st
      ELSE IF list = <<>> THEN st
      ELSE [st EXCEPT !.pendingIce[peerId] = <<>>,
                      !.peerConnections[peerId].ice =
                         @ \cup ({list[k] : k \in 1..Len(list)} \ MalformedCandidates)]

\* A session learning that records the token and keeps the readiness.
LearnSessionKeepsReady(st, peerId, fromSession) ==
  IF fromSession # NoSession /\ st.peerSessions[peerId] # fromSession
  THEN [st EXCEPT !.peerSessions[peerId] = fromSession]
  ELSE st

\* A session learned from a message: a new or changed token is recorded
\* and the peer's readiness withdrawn.
LearnSession(st, peerId, fromSession) ==
  IF fromSession # NoSession /\ st.peerSessions[peerId] # fromSession
  THEN [st EXCEPT !.peerSessions[peerId] = fromSession, !.readyPeers = @ \ {peerId}]
  ELSE st

\* The event of a handler run on a payload.
Handled(kind, me, payload) == Event(kind, me, payload.from)

\* onPayload, type "hello"
onHello(st, me, payload, t) ==
  LET peerId == payload.from
      prev == st.peerSessions[peerId]
  IN  IF st.mySessionNonce = NoSession THEN Result(st, {}, Handled("ignored", me, payload))
      ELSE LET st1 == [st EXCEPT !.peerSessions[peerId] = payload.session,
                                 !.readyPeers = IF prev # NoSession /\ prev # payload.session
                                                THEN @ \ {peerId} ELSE @]
               r == maybeProbePeer(st1, me, peerId, t)
           IN  Result(r.st, r.out, Handled("hello", me, payload))

\* A probe handler that acknowledges only while no connection to the peer
\* exists (used to test the acknowledgement's property).
onProbeWhenIdle(st, me, payload, t) ==
  LET peerId == payload.from
      st1 == LearnSession(st, peerId, payload.fromSession)
  IN  Result(st1,
             IF st1.peerConnections[peerId].kind = "pc" THEN {}
             ELSE sendSignalToSession(st1, me, peerId,
                                      [Msg("probe-ack", me) EXCEPT !.probeId = payload.probeId],
                                      payload.fromSession),
             Handled("probe", me, payload))

\* onPayload, type "probe": the session is learned and the probe is
\* acknowledged to the session it came from.
onProbe(st, me, payload, t) ==
  LET peerId == payload.from
      st1 == LearnSession(st, peerId, payload.fromSession)
  IN  Result(st1,
             sendSignalToSession(st1, me, peerId,
                                 [Msg("probe-ack", me) EXCEPT !.probeId = payload.probeId],
                                 payload.fromSession),
             Handled("probe", me, payload))

\* An addressing test that lets every payload through.
SessionMismatchNever(st, payload) == FALSE

\* The addressing test: the payload names a session that is not this tab's.
SessionMismatch(st, payload) ==
  payload.toSession # NoSession /\ payload.toSession # st.mySessionNonce

\* A staleness test that drops a probe-ack at the limit too.
ProbeAckStaleAtLimit(t, ts) == t - ts >= PROBE_ACK_MAX_AGE

\* The staleness test of a probe-ack against the time of the probe.
ProbeAckStale(t, ts) == t - ts > PROBE_ACK_MAX_AGE

\* onPayload, type "probe-ack" (after the addressing tests and the session
\* learning).
onProbeAck(st, me, payload, t) ==
  LET peerId == payload.from
      last == st.peerProbeState[peerId]
  IN  IF ~last.has \/ last.probeId = NoProbe \/ payload.probeId = NoProbe
         \/ payload.probeId # last.probeId
      THEN Result(st, {}, Handled("probeId mismatch", me, payload))
      ELSE LET st1 == IF payload.fromSession # NoSession
                      THEN [st EXCEPT !.peerSessions[peerId] = payload.fromSession,
                                      !.peerProbeState[peerId].session = payload.fromSession]
                      ELSE st
           IN  IF ProbeAckStale(t, last.ts)
               THEN Result(st1, {}, Handled("stale probe-ack", me, payload))
               ELSE LET st2 == [st1 EXCEPT !.readyPeers = @ \cup {peerId}]
                    IN  Result(IF shouldInitiateWith(me, peerId)
                               THEN ensurePeerConnection(st2, me, peerId) ELSE st2,
                               {}, Handled("probe-ack accepted", me, payload))

\* onPayload, type "signal-offer".  The awaits of the receiving side
\* (setRemoteDescription, createAnswer, setLocalDescription) are taken in
\* one step.
onOffer(st, me, payload, t) ==
  LET peerId == payload.from
      st1 == ensurePeerConnection(st, me, peerId)
      st2 == IF st1.peerConnections[peerId].kind = "pc" THEN st1
             ELSE resetPeerConnection(st1, me, peerId)
      pc == st2.peerConnections[peerId]
      collision == pc.signalingState # "stable" \/ st2.creating[peerId].id = pc.id
  IN  IF pc.kind # "pc" THEN Result(st2, {}, Handled("offer without connection", me, payload))
      ELSE IF collision /\ ~isPoliteFor(me, peerId)
      THEN Result(st2, {}, Handled("offer ignored", me, payload))
      ELSE LET st3 == IF collision THEN resetPeerConnection(st2, me, peerId) ELSE st2
               pc2 == st3.peerConnections[peerId]
               answer == [type |-> "answer", id |-> pc2.id, re |-> payload.sdp.id]
               st4 == flushPendingIce(
                        [st3 EXCEPT !.peerConnections[peerId] =
                            [pc2 EXCEPT !.remote = payload.sdp, !.local = answer,
                                        !.signalingState = "stable"]], peerId)
           IN  IF pc2.kind # "pc"
               THEN Result(st3, {}, Handled("offer without connection", me, payload))
               ELSE IF payload.sdp.type # "offer"
               THEN Result(st3, {}, Handled("offer ignored", me, payload))
               ELSE Result(st4,
                           sendSignal(st4, me, peerId,
                                      [Msg("signal-answer", me) EXCEPT !.sdp = answer]),
                           Handled("offer answered", me, payload))

\* An offer handler in which either side resets on a colliding offer (used
\* to test the collision's property).
onOfferNeverIgnored(st, me, payload, t) ==
  LET peerId == payload.from
      st1 == ensurePeerConnection(st, me, peerId)
      st2 == IF st1.peerConnections[peerId].kind = "pc" THEN st1
             ELSE resetPeerConnection(st1, me, peerId)
      pc == st2.peerConnections[peerId]
      collision == pc.signalingState # "stable" \/ st2.creating[peerId].id = pc.id
      st3 == IF collision THEN resetPeerConnection(st2, me, peerId) ELSE st2
      pc2 == st3.peerConnections[peerId]
      st4 == [st3 EXCEPT !.peerConnections[peerId] =
                 [pc2 EXCEPT !.remote = payload.sdp,
                             !.signalingState = "have-remote-offer"],
                         !.answering[peerId] = pc2.id]
  IN  IF pc.kind # "pc" \/ pc2.kind # "pc"
      THEN Result(st3, {}, Handled("offer without connection", me, payload))
      ELSE Result(st4, {}, Handled("offer accepted", me, payload))

\* onPayload, type "signal-offer", up to the await of createAnswer(): the
\* remote description is set, and the handler waits on the connection
\* answering[peerId].
onOfferAwaiting(st, me, payload, t) ==
  LET peerId == payload.from
      st1 == ensurePeerConnection(st, me, peerId)
      st2 == IF st1.peerConnections[peerId].kind = "pc" THEN st1
             ELSE resetPeerConnection(st1, me, peerId)
      pc == st2.peerConnections[peerId]
      collision == pc.signalingState # "stable" \/ st2.creating[peerId].id = pc.id
  IN  IF pc.kind # "pc" THEN Result(st2, {}, Handled("offer without connection", me, payload))
      ELSE IF collision /\ ~isPoliteFor(me, peerId)
      THEN Result(st2, {}, Handled("offer ignored", me, payload))
      ELSE LET st3 == IF collision THEN resetPeerConnection(st2, me, peerId) ELSE st2
               pc2 == st3.peerConnections[peerId]
               st4 == flushPendingIce(
                        [st3 EXCEPT !.peerConnections[peerId] =
                            [pc2 EXCEPT !.remote = payload.sdp,
                                        !.signalingState = "have-remote-offer"],
                                    !.answering[peerId] = pc2.id], peerId)
           IN  IF pc2.kind # "pc"
               THEN Result(st3, {}, Handled("offer without connection", me, payload))
               ELSE IF payload.sdp.type # "offer"
               THEN Result(st3, {}, Handled("offer ignored", me, payload))
               ELSE Result(st4, {}, Handled("offer accepted", me, payload))

\* An RTCPeerConnection that takes an answer in any signaling state (used
\* to test the answer's property).
setRemoteAnswerAnyState(pc, sdp) ==
  [ok |-> TRUE, pc |-> [pc EXCEPT !.remote = sdp, !.signalingState = "stable"]]

\* pc.setRemoteDescription(answer): the connection takes an answer only in
\* have-local-offer; in any other state the promise rejects
\* (InvalidStateError) and the connection is as before.
setRemoteAnswer(pc, sdp) ==
  IF pc.signalingState = "have-local-offer"
  THEN [ok |-> TRUE, pc |-> [pc EXCEPT !.remote = sdp, !.signalingState = "stable"]]
  ELSE [ok |-> FALSE, pc |-> pc]

\* An answer handler that tests for the wrong signaling state.
onAnswerWhenStable(st, me, payload, t) ==
  LET peerId == payload.from
      pc == st.peerConnections[peerId]
  IN  IF pc.kind = "pc" /\ payload.sdp.type = "answer" /\ pc.signalingState = "stable"
      THEN Result([st EXCEPT !.peerConnections[peerId] =
                      [pc EXCEPT !.remote = payload.sdp, !.signalingState = "stable"]],
                  {}, Handled("answer applied", me, payload))
      ELSE Result(st, {}, Handled("answer ignored", me, payload))

\* onPayload, type "signal-answer": applied only in have-local-offer.
onAnswer(st, me, payload, t) ==
  LET peerId == payload.from
      pc == st.peerConnections[peerId]
  IN  IF pc.kind = "pc" /\ payload.sdp.type = "answer"
         /\ pc.signalingState = "have-local-offer"
      THEN Result(flushPendingIce(
                    [st EXCEPT !.peerConnections[peerId] =
                        [pc EXCEPT !.remote = payload.sdp, !.signalingState = "stable"]],
                    peerId),
                  {}, Handled("answer applied", me, payload))
      ELSE Result(st, {}, Handled("answer ignored", me, payload))

\* onPayload, type "signal-offer", with a description that
\* setRemoteDescription() rejects: the handler runs as for any offer up to
\* that await, nothing in it catches the rejection, and the client that
\* called onPayload does not await it.
onMalformedOffer(st, me, payload, t) ==
  LET peerId == payload.from
      st1 == ensurePeerConnection(st, me, peerId)
      st2 == IF st1.peerConnections[peerId].kind = "pc" THEN st1
             ELSE resetPeerConnection(st1, me, peerId)
      pc == st2.peerConnections[peerId]
      collision == pc.signalingState # "stable" \/ st2.creating[peerId].id = pc.id
  IN  IF pc.kind # "pc" THEN Result(st2, {}, Handled("offer without connection", me, payload))
      ELSE IF collision /\ ~isPoliteFor(me, peerId)
      THEN Result(st2, {}, Handled("offer ignored", me, payload))
      ELSE LET st3 == IF collision THEN resetPeerConnection(st2, me, peerId) ELSE st2
           IN  IF st3.peerConnections[peerId].kind # "pc"
               THEN Result(st3, {}, Handled("offer without connection", me, payload))
               ELSE Result(st3, {}, Handled("unhandled rejection", me, payload))

\* onPayload, type "signal-answer", with a description that
\* setRemoteDescription() rejects: the rejection is not caught either.
onMalformedAnswer(st, me, payload, t) ==
  LET peerId == payload.from
      pc == st.peerConnections[peerId]
  IN  IF pc.kind = "pc" /\ pc.signalingState = "have-local-offer"
      THEN Result(st, {}, Handled("unhandled rejection", me, payload))
      ELSE Result(st, {}, Handled("answer ignored", me, payload))

\* onPayload, type "signal-ice", with a candidate that addIceCandidate()
\* rejects: before the remote description it is queued like any other,
\* after it the rejection is caught and logged.
onMalformedCandidate(st, me, payload, t) ==
  LET peerId == payload.from
      pc == st.peerConnections[peerId]
      st1 == addIceCandidateSafely(st, peerId, CHOOSE c \in MalformedCandidates : TRUE)
  IN  IF pc.kind = "pc" /\ pc.remote # NoSdp
      THEN Result(st, {}, Handled("candidate rejected", me, payload))
      ELSE Result(st1, {}, Handled("candidate", me, payload))

\* onPayload({from, payload}) at tab me, at time t.
onPayload(st0, me, payload, t) ==
  LET peerId == payload.from
      st == IF st0.peerConnections[peerId].kind = "absent"
            THEN [st0 EXCEPT !.peerConnections[peerId] = SeenPc] ELSE st0
  IN  IF payload.type = "hello" THEN onHello(st, me, payload, t)
      ELSE IF payload.type = "probe" THEN onProbe(st, me, payload, t)
      ELSE IF SessionMismatch(st, payload)
      THEN LET r == resyncPeerSession(st, me, peerId, t)
           IN  Result(r.st, r.out, Handled("toSession mismatch", me, payload))
      ELSE IF payload.to # Null /\ payload.to # me
      THEN Result(st, {}, Handled("to mismatch", me, payload))
      ELSE LET st1 == LearnSession(st, peerId, payload.fromSession)
           IN  IF payload.type = "probe-ack" THEN onProbeAck(st1, me, payload, t)
               ELSE IF payload.type = "signal-offer" THEN onOffer(st1, me, payload, t)
               ELSE IF payload.type = "signal-answer" THEN onAnswer(st1, me, payload, t)
               ELSE Result(st1, {}, Handled("ignored", me, payload))

\* The events of the relay a tab's client has not delivered yet.
Undelivered(i) == {e \in relayLog : e.from # i /\ e \notin inst[i].seen}

\* The relay client of tab i delivers an event: onPayload.
relayDeliver(i, e) ==
  /\ i \in relayPeers
  /\ inst[i].nostrClient
  /\ e \in Undelivered(i)
  /\ \E st \in {[inst[i] EXCEPT !.seen = @ \cup {e}]} :
       \E r \in {onPayload(st, i, e, now)} :
          /\ inst' = [inst EXCEPT ![i] = r.st]
          /\ relayLog' = relayLog \cup r.out
          /\ lastEvent' = r.ev
  /\ UNCHANGED <<relayPeers, gunPresence, now, nonRelayVars>>

\* A session token drawn at every connect.
SessionAlwaysNew(st, i) == <<i, st.sessions + 1>>

\* The session token of a connect: the one the tab has, a new one when it
\* has none.  Math.random() and the clock give a token never used before.
SessionFor(st, i) ==
  IF st.mySessionNonce = NoSession THEN <<i, st.sessions + 1>> ELSE st.mySessionNonce

\* connectNostr() with every signaling method enabled: the relay state is
\* cleared, the connections closed, the session token kept (created when
\* null), a relay selected, hello published, hybrid signaling created.
connectNostr(i) ==
  /\ i \in relayPeers
  /\ LET st == inst[i]
         nonce == SessionFor(st, i)
         fresh == nonce # st.mySessionNonce
     IN  /\ inst' = [inst EXCEPT ![i] =
                 [st EXCEPT !.nostrClient = TRUE, !.hybridSignaling = TRUE,
                            !.mySessionNonce = nonce,
                            !.sessions = IF fresh THEN @ + 1 ELSE @,
                            !.connects = @ + 1,
                            !.peerSessions = FreshInst.peerSessions,
                            !.peerProbeState = FreshInst.peerProbeState,
                            !.readyPeers = {},
                            !.peerConnections = FreshInst.peerConnections,
                            !.dataChannels = {},
                            !.creating = FreshInst.creating,
                            !.pendingIce = FreshInst.pendingIce,
                            !.open = {},
                            !.gunPeers = {},
                            !.seen = {}]]
         /\ relayLog' = relayLog \cup {[Msg("hello", i) EXCEPT !.session = nonce]}
  /\ gunPresence' = gunPresence \cup {i}
  /\ lastEvent' = Event("connect", i, Null)
  /\ UNCHANGED <<relayPeers, now, nonRelayVars>>

\* window.disconnect()
disconnect(i) ==
  /\ i \in relayPeers
  /\ inst[i].nostrClient
  /\ inst' = [inst EXCEPT ![i] =
        [@ EXCEPT !.nostrClient = FALSE, !.hybridSignaling = FALSE,
                  !.mySessionNonce = NoSession,
                  !.peerSessions = FreshInst.peerSessions,
                  !.peerProbeState = FreshInst.peerProbeState,
                  !.readyPeers = {},
                  !.peerConnections = FreshInst.peerConnections,
                  !.dataChannels = {},
                  !.creating = FreshInst.creating,
                  !.pendingIce = FreshInst.pendingIce,
                  !.open = {},
                  !.gunPeers = {},
                  !.seen = {}]]
  /\ lastEvent' = Event("disconnect", i, Null)
  /\ UNCHANGED <<relayPeers, relayLog, gunPresence, now, nonRelayVars>>

\* createPeerConnection / initiateGunWebRTC after createOffer() and
\* setLocalDescription(): the offer is sent, over the relay or over Gun.
offerCreated(i, p) ==
  /\ i \in relayPeers
  /\ inst[i].creating[p] # NoCreating
  /\ LET st == inst[i]
         c == st.creating[p]
         offer == [type |-> "offer", id |-> c.id, re |-> NoPc]
         st1 == [st EXCEPT !.creating[p] = NoCreating,
                           !.peerConnections[p] =
                              [@ EXCEPT !.local = offer, !.signalingState = "have-local-offer"],
                           !.initiatedPeers = @ \cup {p}]
         out == IF c.via = "Nostr"
                THEN sendSignal(st1, i, p, [Msg("signal-offer", i) EXCEPT !.sdp = offer])
                ELSE {}
     IN  /\ inst' = [inst EXCEPT ![i] = st1]
         /\ relayLog' = relayLog \cup out
         /\ lastEvent' = Event(IF c.via = "Gun" THEN "gun offer sent"
                               ELSE IF out # {} THEN "offer sent" ELSE "offer not sent", i, p)
  /\ UNCHANGED <<relayPeers, gunPresence, now, nonRelayVars>>

\* The relay client of tab i delivers an event, and an offer is handled up
\* to its await of createAnswer().
answerDeliver(i, e) ==
  /\ i \in relayPeers
  /\ inst[i].nostrClient
  /\ e \in Undelivered(i)
  /\ \E st0 \in {[inst[i] EXCEPT !.seen = @ \cup {e}]} :
       \E st \in {IF st0.peerConnections[e.from].kind = "absent"
                   THEN [st0 EXCEPT !.peerConnections[e.from] = SeenPc] ELSE st0} :
         \E r \in {IF /\ e.type = "signal-offer"
                       /\ ~SessionMismatch(st, e)
                       /\ ~(e.to # Null /\ e.to # i)
                    THEN onOfferAwaiting(LearnSession(st, e.from, e.fromSession), i, e, now)
                    ELSE onPayload(st0, i, e, now)} :
            /\ inst' = [inst EXCEPT ![i] = r.st]
            /\ relayLog' = relayLog \cup r.out
            /\ lastEvent' = r.ev
  /\ UNCHANGED <<relayPeers, gunPresence, now, nonRelayVars>>

\* The offer handler after createAnswer() and setLocalDescription(): the
\* answer is sent.  On a connection closed meanwhile createAnswer() rejects
\* and the handler ends.
answerCreated(i, p) ==
  /\ i \in relayPeers
  /\ inst[i].answering[p] # NoPc
  /\ LET st == inst[i]
         pc == st.peerConnections[p]
         alive == pc.kind = "pc" /\ pc.id = st.answering[p]
                  /\ pc.signalingState = "have-remote-offer"
         answer == [type |-> "answer", id |-> pc.id, re |-> pc.remote.id]
         st1 == IF alive
                THEN [st EXCEPT !.answering[p] = NoPc,
                                !.peerConnections[p] =
                                   [pc EXCEPT !.local = answer, !.signalingState = "stable"]]
                ELSE [st EXCEPT !.answering[p] = NoPc]
         out == IF alive
                THEN sendSignal(st1, i, p, [Msg("signal-answer", i) EXCEPT !.sdp = answer])
                ELSE {}
     IN  /\ inst' = [inst EXCEPT ![i] = st1]
         /\ relayLog' = relayLog \cup out
         /\ lastEvent' = Event(IF alive THEN "offer answered" ELSE "answer failed", i, p)
  /\ UNCHANGED <<relayPeers, gunPresence, now, nonRelayVars>>

\* The relay is public: a client other than this program publishes an
\* offer under peer p's id, addressed to tab i and its session, and tab i's
\* relay client delivers it (onPayload, type "signal-offer") while tab i
\* negotiates with p: its connection is not stable.
foreignOffer(i, p) ==
  /\ i \in relayPeers /\ p \in relayPeers \ {i}
  /\ inst[i].nostrClient
  /\ inst[i].peerSessions[p] # NoSession
  /\ inst[i].creating[p] = NoCreating
  /\ inst[i].peerConnections[p].kind = "pc"
  /\ inst[i].peerConnections[p].signalingState # "stable"
  /\ LET e == [Msg("signal-offer", p) EXCEPT
                  !.to = i, !.toSession = inst[i].mySessionNonce,
                  !.fromSession = inst[i].peerSessions[p],
                  !.sdp = [type |-> "offer", id |-> <<p, 0>>, re |-> NoPc]]
         r == onOfferAwaiting(inst[i], i, e, now)
     IN  /\ inst' = [inst EXCEPT ![i] = r.st]
         /\ relayLog' = relayLog \cup r.out
         /\ lastEvent' = r.ev
  /\ UNCHANGED <<relayPeers, gunPresence, now, nonRelayVars>>

\* handleGunSignal(peerId, signal) with an answer: Gun delivers to tab i an
\* answer stored under peer p, of this or of an earlier negotiation.  The
\* handler tests the preferred transport and the connection, not the
\* signaling state; a rejection of setRemoteDescription is caught.
handleGunSignal(i, p, preferredOther) ==
  /\ i \in relayPeers /\ p \in gunPresence \ {i}
  /\ inst[i].hybridSignaling
  /\ LET st == inst[i]
         pc == st.peerConnections[p]
         r == setRemoteAnswer(pc, [type |-> "answer", id |-> <<p, 0>>, re |-> pc.local.id])
     IN  IF preferredOther
         THEN /\ inst' = inst
              /\ lastEvent' = Event("gun signal ignored", i, p)
         ELSE IF pc.kind # "pc"
         THEN /\ inst' = inst
              /\ lastEvent' = Event("gun answer without connection", i, p)
         ELSE /\ inst' = [inst EXCEPT ![i] =
                           IF r.ok
                           THEN flushPendingIce([st EXCEPT !.peerConnections[p] = r.pc], p)
                           ELSE st]
              /\ lastEvent' = Event(IF r.ok THEN "gun answer applied"
                                    ELSE "gun answer rejected", i, p)
  /\ UNCHANGED <<relayPeers, relayLog, gunPresence, now, nonRelayVars>>

\* The candidates a peer's connection gathers.
IceCandidates == 1..MaxIce

\* onPayload, type "signal-ice": tab i's relay client delivers a candidate
\* of peer p that is addressed to tab i and its session.
iceDeliver(i, p, candidate) ==
  /\ i \in relayPeers /\ p \in relayPeers \ {i}
  /\ inst[i].nostrClient
  /\ inst[i].peerSessions[p] # NoSession
  /\ Len(inst[i].pendingIce[p]) < MaxPendingIce
  /\ inst' = [inst EXCEPT ![i] = addIceCandidateSafely(@, p, candidate)]
  /\ lastEvent' = Event("candidate", i, p)
  /\ UNCHANGED <<relayPeers, relayLog, gunPresence, now, nonRelayVars>>

\* The kinds of message that carry a description or a candidate.
MalformedTypes == {"signal-offer", "signal-answer", "signal-ice"}

\* Tab i's relay client delivers a message of peer p, addressed to tab i
\* and its session, whose description or candidate is malformed, while tab
\* i holds a connection to p and no createOffer() of its own is pending.
malformedDeliver(i, p, type) ==
  /\ i \in relayPeers /\ p \in relayPeers \ {i}
  /\ inst[i].nostrClient
  /\ inst[i].peerSessions[p] # NoSession
  /\ inst[i].creating[p] = NoCreating
  /\ inst[i].peerConnections[p].kind = "pc"
  /\ Len(inst[i].pendingIce[p]) < MaxPendingIce
  /\ LET e == [Msg(type, p) EXCEPT
                  !.to = i, !.toSession = inst[i].mySessionNonce,
                  !.fromSession = inst[i].peerSessions[p]]
         r == IF type = "signal-offer" THEN onMalformedOffer(inst[i], i, e, now)
              ELSE IF type = "signal-answer" THEN onMalformedAnswer(inst[i], i, e, now)
              ELSE onMalformedCandidate(inst[i], i, e, now)
     IN  /\ inst' = [inst EXCEPT ![i] = r.st]
         /\ relayLog' = relayLog \cup r.out
         /\ lastEvent' = r.ev
  /\ UNCHANGED <<relayPeers, gunPresence, now, nonRelayVars>>

\* onPeerDiscovered with source "gun": the initiator marks the peer ready
\* at once and calls initiateGunWebRTC.
gunPeerDiscovered(i, p) ==
  /\ i \in relayPeers
  /\ inst[i].hybridSignaling
  /\ p \in gunPresence \ {i}
  /\ p \notin inst[i].gunPeers
  /\ LET st == [inst[i] EXCEPT !.gunPeers = @ \cup {p},
                               !.peerConnections[p] = IF @.kind = "absent" THEN SeenPc ELSE @]
         st1 == [st EXCEPT !.readyPeers = @ \cup {p}]
         st2 == createPeerConnection(st1, i, p, FALSE)
         st3 == [st2 EXCEPT !.dataChannels = @ \cup {p},
                            !.open = @ \cup {Open("dc", st2.peerConnections[p].id, p)},
                            !.creating[p] = [id |-> st2.peerConnections[p].id, via |-> "Gun"]]
     IN  inst' = [inst EXCEPT ![i] =
                    IF ~shouldInitiateWith(i, p) THEN st
                    ELSE IF p \in st1.initiatedPeers THEN st1
                    ELSE IF p \in st2.dataChannels THEN st2
                    ELSE st3]
  /\ lastEvent' = Event("gun discovery", i, p)
  /\ UNCHANGED <<relayPeers, relayLog, gunPresence, now, nonRelayVars>>

\* Time passes.
RelayDelay == 30

relayTick ==
  /\ now + RelayDelay <= MaxRelayNow
  /\ now' = now + RelayDelay
  /\ lastEvent' = Event("tick", Null, Null)
  /\ UNCHANGED <<relayPeers, inst, relayLog, gunPresence, nonRelayVars>>

\* The connects made so far.
RECURSIVE SumConnects(_)
SumConnects(S) ==
  IF S = {} THEN 0
  ELSE LET m == CHOOSE x \in S : TRUE IN inst[m].connects + SumConnects(S \ {m})

TotalConnects == SumConnects(relayPeers)

\* The caps of the two-member negotiation.
WithinRelayBounds ==
  /\ Cardinality(relayLog) <= MaxLog
  /\ \A i \in relayPeers : inst[i].probes <= MaxProbes /\ inst[i].pcs <= MaxRelayPcs

\* The two-member negotiation keeps no order of publication.
Unordered == WithinRelayBounds' /\ UNCHANGED <<relayOrder, late>>

RelayNext ==
  \/ \E i \in Members : TotalConnects < MaxConnects /\ connectNostr(i) /\ Unordered
  \/ \E i \in Members : disconnect(i) /\ Unordered
  \/ \E i \in Members : \E e \in relayLog : relayDeliver(i, e) /\ Unordered
  \/ \E i \in Members, p \in Members : offerCreated(i, p) /\ Unordered
  \/ \E i \in Members, p \in Members : gunPeerDiscovered(i, p) /\ Unordered
  \/ relayTick /\ Unordered

\* The two-member negotiation with the offer handler's awaits as steps.
AnswerNext ==
  \/ \E i \in Members : TotalConnects < MaxConnects /\ connectNostr(i) /\ Unordered
  \/ \E i \in Members : disconnect(i) /\ Unordered
  \/ \E i \in Members : \E e \in relayLog : answerDeliver(i, e) /\ Unordered
  \/ \E i \in Members, p \in Members : offerCreated(i, p) /\ Unordered
  \/ \E i \in Members, p \in Members : answerCreated(i, p) /\ Unordered

\* The two-member negotiation with the candidates of the peer.
CandNext ==
  \/ \E i \in Members : TotalConnects < MaxConnects /\ connectNostr(i) /\ Unordered
  \/ \E i \in Members : disconnect(i) /\ Unordered
  \/ \E i \in Members : \E e \in relayLog : relayDeliver(i, e) /\ Unordered
  \/ \E i \in Members, p \in Members : offerCreated(i, p) /\ Unordered
  \/ \E i \in Members, p \in Members : \E c \in IceCandidates :
        iceDeliver(i, p, c) /\ Unordered

\* The two-member negotiation with the offer handler's awaits as steps and
\* the candidates of the peer.
ResetNext ==
  \/ \E i \in Members : TotalConnects < MaxConnects /\ connectNostr(i) /\ Unordered
  \/ \E i \in Members : disconnect(i) /\ Unordered
  \/ \E i \in Members : \E e \in relayLog : answerDeliver(i, e) /\ Unordered
  \/ \E i \in Members, p \in Members : offerCreated(i, p) /\ Unordered
  \/ \E i \in Members, p \in Members : answerCreated(i, p) /\ Unordered
  \/ \E i \in Members, p \in Members : \E c \in IceCandidates :
        iceDeliver(i, p, c) /\ Unordered

\* The two-member negotiation with answers over Gun.
GunNext ==
  \/ \E i \in Members : TotalConnects < MaxConnects /\ connectNostr(i) /\ Unordered
  \/ \E i \in Members : disconnect(i) /\ Unordered
  \/ \E i \in Members : \E e \in relayLog : relayDeliver(i, e) /\ Unordered
  \/ \E i \in Members, p \in Members : offerCreated(i, p) /\ Unordered
  \/ \E i \in Members, p \in Members : gunPeerDiscovered(i, p) /\ Unordered
  \/ \E i \in Members, p \in Members : \E preferredOther \in BOOLEAN :
        handleGunSignal(i, p, preferredOther) /\ Unordered

\* The two-member negotiation with offers of foreign clients.
OfferNext ==
  \/ \E i \in Members : TotalConnects < MaxConnects /\ connectNostr(i) /\ Unordered
  \/ \E i \in Members : disconnect(i) /\ Unordered
  \/ \E i \in Members : \E e \in relayLog : answerDeliver(i, e) /\ Unordered
  \/ \E i \in Members, p \in Members : offerCreated(i, p) /\ Unordered
  \/ \E i \in Members, p \in Members : answerCreated(i, p) /\ Unordered
  \/ \E i \in Members, p \in Members : foreignOffer(i, p) /\ Unordered

\* The two-member negotiation with the candidates of the peer and with
\* malformed descriptions and candidates.
MalNext ==
  \/ \E i \in Members : TotalConnects < MaxConnects /\ connectNostr(i) /\ Unordered
  \/ \E i \in Members : disconnect(i) /\ Unordered
  \/ \E i \in Members : \E e \in relayLog : relayDeliver(i, e) /\ Unordered
  \/ \E i \in Members, p \in Members : offerCreated(i, p) /\ Unordered
  \/ \E i \in Members, p \in Members : \E c \in IceCandidates :
        iceDeliver(i, p, c) /\ Unordered
  \/ \E i \in Members, p \in Members : \E type \in MalformedTypes :
        malformedDeliver(i, p, type) /\ Unordered

\* The relay's order of publication: a step publishes at most one event.
Published ==
  relayOrder' = IF relayLog' = relayLog THEN relayOrder
                ELSE Append(relayOrder, CHOOSE e \in relayLog' \ relayLog : TRUE)

\* The tabs whose client has not delivered the k-th event of the relay,
\* and the tabs that wait for some event.
Takers(k) ==
  {j \in relayPeers : /\ inst[j].nostrClient
                      /\ relayOrder[k].from # j
                      /\ relayOrder[k] \notin inst[j].seen}

Waiting == {j \in relayPeers : inst[j].nostrClient /\ Undelivered(j) # {}}

\* The position of the earliest event, from k on, that a tab waits for
\* (0: none).
RECURSIVE FirstPending(_)
FirstPending(k) ==
  IF k > Len(relayOrder) THEN 0
  ELSE IF Takers(k) # {} THEN k
  ELSE FirstPending(k + 1)

\* The tab has a createOffer() pending.
Creating(i) == \E p \in Members : inst[i].creating[p] # NoCreating

\* A tab joins the room, once, while the room is quiet.
meshJoin(i) ==
  /\ inst[i].connects = 0
  /\ Waiting = {}
  /\ \A j \in Members : ~Creating(j)
  /\ connectNostr(i)
  /\ Published
  /\ late' = late

\* The relay broadcasts its events in the order of publication: the next
\* delivery is the earliest waiting event, to the waiting tab of the
\* smallest id, once the tab's createOffer() has resolved.
meshDeliver(i) ==
  /\ ~Creating(i)
  /\ \E k \in {FirstPending(1)} :
        /\ k > 0
        /\ i \in Takers(k)
        /\ \A j \in Takers(k) : ~StrLess(j, i)
        /\ relayDeliver(i, relayOrder[k])
  /\ Published
  /\ late' = late

meshOfferCreated(i, p) == offerCreated(i, p) /\ Published /\ late' = late

\* More than 30 s pass, at any moment; late records that an event was
\* waiting for its delivery meanwhile.
MeshDelay == 31

meshTick ==
  /\ now + MeshDelay <= MaxMeshNow
  /\ now' = now + MeshDelay
  /\ late' = (late \/ Waiting # {})
  /\ lastEvent' = Event("tick", Null, Null)
  /\ UNCHANGED <<relayPeers, inst, relayLog, gunPresence, relayOrder, nonRelayVars>>

MeshNext ==
  \/ \E i \in Members : meshJoin(i)
  \/ \E i \in Members : meshDeliver(i)
  \/ \E i \in Members, p \in Members : meshOfferCreated(i, p)
  \/ meshTick

-----------------------------------------------------------------------------
(* Signaling server: src/server.js, the HTTP polling API of one room key *)

CLIENT_TTL == 60

ClientIds == {"ann", "bob"}
SessionIds == {"s1", "s2"}
NoSessionId == "none"
SignalTypes == {"offer", "answer", "ice-candidate"}

NoClient == [known |-> FALSE, sessionId |-> NoSessionId, lastSeen |-> 0]
Known == {c \in ClientIds : clients[c].known}

\* A queued message.  origin and held are bookkeeping: the session the
\* sender was in and the session the receiver was in when it was queued.
SrvMsg(type, peerId, sessionId, origin) ==
  [type |-> type, peerId |-> peerId, sessionId |-> sessionId, origin |-> origin,
   held |-> NoSessionId]

\* queueMessage(state, targetClientId, message) on the queues q of clients cl
queueMessage(q, cl, targetClientId, message) ==
  [q EXCEPT ![targetClientId] = Append(@, [message EXCEPT !.held = cl[targetClientId].sessionId])]

\* broadcastToSession(state, sessionId, message, excludeClientId) with the
\* membership sets ss
RECURSIVE QueueAll(_, _, _, _)
QueueAll(q, cl, targets, message) ==
  IF targets = {} THEN q
  ELSE LET t == CHOOSE x \in targets : TRUE
       IN  QueueAll(queueMessage(q, cl, t, message), cl, targets \ {t}, message)

broadcastToSession(q, cl, ss, sessionId, message, exclude) ==
  QueueAll(q, cl, ss[sessionId] \ exclude, message)

\* pruneStaleClients(state), run at the start of every request: a client
\* not seen for more than CLIENT_TTL leaves its session and is forgotten.
RECURSIVE Prune(_, _)
Prune(st, t) ==
  LET stale == {c \in ClientIds : st.clients[c].known /\ t - st.clients[c].lastSeen > CLIENT_TTL}
  IN  IF stale = {} THEN st
      ELSE LET c == CHOOSE x \in stale : TRUE
               sid == st.clients[c].sessionId
               ss == IF sid = NoSessionId THEN st.sessions
                     ELSE [st.sessions EXCEPT ![sid] = @ \ {c}]
               q == IF sid = NoSessionId THEN st.queues
                    ELSE broadcastToSession(st.queues, st.clients, ss, sid,
                                            SrvMsg("peer-left", c, sid, sid), {})
           IN  Prune([clients |-> [st.clients EXCEPT ![c] = NoClient],
                      queues |-> [q EXCEPT ![c] = <<>>],
                      sessions |-> ss], t)

Pruned == Prune([clients |-> clients, queues |-> queues, sessions |-> sessions], now)

Respond(st, response) ==
  /\ clients' = st.clients
  /\ queues' = st.queues
  /\ sessions' = st.sessions
  /\ polled' = response
  /\ UNCHANGED <<now, nonServerVars>>

\* A response: its status and the number of messages it carries.
Ok == [status |-> 200, messages |-> 0]
Refused(status) == [status |-> status, messages |-> 0]

\* POST /api/connect
apiConnect(c) ==
  \E st \in {Pruned} :
    /\ ~st.clients[c].known
    /\ Respond([st EXCEPT !.clients[c] = [known |-> TRUE, sessionId |-> NoSessionId, lastSeen |-> now],
                          !.queues[c] = <<>>], Ok)

\* POST /api/set-id
apiSetId(c, customId) ==
  \E st \in {Pruned} :
    IF ~st.clients[c].known THEN Respond(st, Refused(400))
    ELSE IF st.clients[customId].known /\ customId # c THEN Respond(st, Refused(409))
    ELSE LET client == st.clients[c]
             cl1 == [st.clients EXCEPT ![c] = NoClient]
             q1 == [st.queues EXCEPT ![c] = <<>>]
         IN  Respond([clients |-> [cl1 EXCEPT ![customId] = [client EXCEPT !.lastSeen = now]],
                      queues |-> [q1 EXCEPT ![customId] = st.queues[c]],
                      sessions |-> IF client.sessionId = NoSessionId THEN st.sessions
                                   ELSE [st.sessions EXCEPT ![client.sessionId] = (@ \ {c}) \cup {customId}]],
                     Ok)

\* POST /api/join
apiJoin(c, sessionId) ==
  \E st \in {Pruned} :
    IF ~st.clients[c].known THEN Respond(st, Refused(400))
    ELSE LET prev == st.clients[c].sessionId
             moved == prev # NoSessionId /\ prev # sessionId
             ss1 == IF moved THEN [st.sessions EXCEPT ![prev] = @ \ {c}] ELSE st.sessions
             q1 == IF moved
                   THEN broadcastToSession(st.queues, st.clients, ss1, prev,
                                           SrvMsg("peer-left", c, prev, prev), {})
                   ELSE st.queues
             cl2 == [st.clients EXCEPT ![c].sessionId = sessionId, ![c].lastSeen = now]
             ss2 == [ss1 EXCEPT ![sessionId] = @ \cup {c}]
             q2 == broadcastToSession(q1, cl2, ss2, sessionId,
                                      SrvMsg("peer-joined", c, sessionId, sessionId), {c})
         IN  Respond([clients |-> cl2, queues |-> q2, sessions |-> ss2], Ok)

\* POST /api/leave
apiLeave(c) ==
  \E st \in {Pruned} :
    IF ~st.clients[c].known THEN Respond(st, Refused(400))
    ELSE LET sid == st.clients[c].sessionId
             ss1 == IF sid = NoSessionId THEN st.sessions
                    ELSE [st.sessions EXCEPT ![sid] = @ \ {c}]
             q1 == IF sid = NoSessionId THEN st.queues
                   ELSE broadcastToSession(st.queues, st.clients, ss1, sid,
                                           SrvMsg("peer-left", c, sid, sid), {})
         IN  Respond([clients |-> [st.clients EXCEPT ![c] = NoClient],
                      queues |-> [q1 EXCEPT ![c] = <<>>],
                      sessions |-> ss1], Ok)

\* POST /api/signal; targetId is NoTarget for a broadcast
NoTarget == "none"

apiSignal(c, sessionId, targetId, type) ==
  \E st \in {Pruned} :
    IF ~st.clients[c].known THEN Respond(st, Refused(400))
    ELSE LET cl1 == [st.clients EXCEPT ![c].lastSeen = now]
             st1 == [st EXCEPT !.clients = cl1]
             message == SrvMsg(type, c, sessionId, cl1[c].sessionId)
         IN  IF cl1[c].sessionId = NoSessionId THEN Respond(st1, Refused(400))
             ELSE IF targetId # NoTarget
             THEN IF ~cl1[targetId].known THEN Respond(st1, Refused(404))
                  ELSE Respond([st1 EXCEPT !.queues = queueMessage(st.queues, cl1, targetId, message)], Ok)
             ELSE Respond([st1 EXCEPT !.queues = broadcastToSession(st.queues, cl1, st.sessions,
                                                                   cl1[c].sessionId, message, {c})], Ok)

\* GET /api/poll
apiPoll(c) ==
  \E st \in {Pruned} :
    IF ~st.clients[c].known THEN Respond(st, Refused(404))
    ELSE Respond([st EXCEPT !.clients[c].lastSeen = now, !.queues[c] = <<>>],
                 [status |-> 200, messages |-> Len(st.queues[c])])

\* Time passes between two requests.
ServerDelay == 61

serverTick ==
  /\ now + ServerDelay <= MaxServerNow
  /\ now' = now + ServerDelay
  /\ UNCHANGED <<serverVars, nonServerVars>>

\* The sessionId a client puts in the body of a signal: the session it
\* joined last.
OwnSession(c) == IF clients[c].sessionId = NoSessionId THEN {"s1"} ELSE {clients[c].sessionId}

WithinServerBounds == \A c \in ClientIds : Len(queues[c]) <= MaxQueue

ServerNext ==
  \/ \E c \in ClientIds : apiConnect(c) /\ WithinServerBounds'
  \/ \E c \in ClientIds, customId \in ClientIds : apiSetId(c, customId) /\ WithinServerBounds'
  \/ \E c \in ClientIds, sid \in SessionIds : apiJoin(c, sid) /\ WithinServerBounds'
  \/ \E c \in ClientIds : apiLeave(c) /\ WithinServerBounds'
  \/ \E c \in ClientIds, t \in ClientIds \cup {NoTarget}, type \in SignalTypes :
        \E sid \in OwnSession(c) : apiSignal(c, sid, t, type) /\ WithinServerBounds'
  \/ \E c \in ClientIds : apiPoll(c) /\ WithinServerBounds'
  \/ serverTick

ServerIdle ==
  /\ clients = [c \in ClientIds |-> NoClient]
  /\ queues = [c \in ClientIds |-> <<>>]
  /\ sessions = [sid \in SessionIds |-> {}]
  /\ polled = Ok

\* The tabs of the members S as loaded.
RelayInit(S) ==
  /\ relayPeers = S
  /\ inst = [i \in Members |-> FreshInst]
  /\ relayLog = {}
  /\ gunPresence = {}
  /\ lastEvent = Event("none", Null, Null)
  /\ relayOrder = <<>>
  /\ late = FALSE

RelayIdle == RelayInit({})

ElectIdle ==
  /\ hbDue = [m \in Members |-> 0]
  /\ wdDue = [m \in Members |-> 0]
  /\ coInbox = {}

CoordIdle ==
  /\ joined = {}
  /\ coordinatorId = [m \in Members |-> Null]
  /\ isCoordinator = [m \in Members |-> FALSE]
  /\ knownPeers = [m \in Members |-> NoPeers]
  /\ coordinatorHeartbeatTimer = [m \in Members |-> FALSE]
  /\ coordinatorElectionTimer = [m \in Members |-> FALSE]
  /\ electionAnnounced = [m \in Members |-> FALSE]
  /\ coMsgs = {}
  /\ lastElection = [member |-> Null, force |-> FALSE, alive |-> {},
                     chosen |-> Null, self |-> FALSE, repeated |-> FALSE]

RoleIdle ==
  /\ rolePair = <<Null, Null>>
  /\ roleOut = [computed |-> FALSE]

vars == <<now, roleVars, coordVars, iceVars, arbVars, relayVars, electVars, serverVars, callVars>>

\* Role assignment on every pair of PeerIds.
InitRole == RoleInit /\ now = 0 /\ CoordIdle /\ room = {} /\ IceIdle /\ ArbIdle /\ RelayIdle /\ ElectIdle /\ ServerIdle /\ relayCall = NoCall
NextRole == ComputeRoles
SpecRole == InitRole /\ [][NextRole]_vars

\* The coordinator election of a room of three members.
\* One member, "f9", runs the election; "a1" and "z9" are heard through
\* the relay.
InitCoord == now = 0 /\ CoordIdle /\ RoleIdle /\ room = {F9} /\ IceIdle /\ ArbIdle /\ RelayIdle /\ ElectIdle /\ ServerIdle /\ relayCall = NoCall
SpecCoord == InitCoord /\ [][CoordNext]_vars

\* The candidate batcher of one remote peer.
InitIce == now = 0 /\ CoordIdle /\ RoleIdle /\ room = {} /\ IceIdle /\ ArbIdle /\ RelayIdle /\ ElectIdle /\ ServerIdle /\ relayCall = NoCall
SpecIce == InitIce /\ [][IceNext]_vars

\* The candidate batcher whose event loop runs every timeout that is set.
IceFairness == WF_vars(iceTimerFires)
InitIceLive == InitIce
SpecIceLive == InitIceLive /\ [][IceNext]_vars /\ IceFairness

\* The candidate batcher under its clock.
InitBatch == InitIce
SpecBatch == InitBatch /\ [][BatchNext]_vars

\* The transport arbitration of one remote peer.
InitArb == now = 0 /\ CoordIdle /\ RoleIdle /\ room = {} /\ IceIdle /\ ArbIdle /\ RelayIdle /\ ElectIdle /\ ServerIdle /\ relayCall = NoCall
SpecArb == InitArb /\ [][ArbNext]_vars

\* The relay negotiation of two members, "a1" and "z9", with reconnects.
InitRelay == now = 0 /\ CoordIdle /\ RoleIdle /\ room = {} /\ IceIdle /\ ArbIdle /\ RelayInit({A1, Z9}) /\ ElectIdle /\ ServerIdle /\ relayCall = NoCall
SpecRelay == InitRelay /\ [][RelayNext]_vars

\* The same two tabs, the awaits of the offer handler taken as steps.
InitAnswer == InitRelay
SpecAnswer == InitAnswer /\ [][AnswerNext]_vars

\* The negotiation of two tabs with candidates arriving in any order.
InitCand == InitRelay
SpecCand == InitCand /\ [][CandNext]_vars

\* The negotiation of two tabs with resets of a connection under way.
InitReset == InitRelay
SpecReset == InitReset /\ [][ResetNext]_vars

\* The negotiation of two tabs over the relay and over Gun.
InitGun == InitRelay
SpecGun == InitGun /\ [][GunNext]_vars

\* The negotiation of two tabs on a relay that foreign clients publish to.
InitOffer == InitRelay
SpecOffer == InitOffer /\ [][OfferNext]_vars

\* The two-member negotiation with malformed messages.
InitMal == InitRelay
SpecMal == InitMal /\ [][MalNext]_vars

\* Three members join the room over the relay.  Every tab joins, the relay
\* delivers every event to every client, createOffer() resolves.
InitMesh == now = 0 /\ CoordIdle /\ RoleIdle /\ room = {} /\ IceIdle /\ ArbIdle /\ RelayInit(Members) /\ ElectIdle /\ ServerIdle /\ relayCall = NoCall

\* The election of a whole room: its members join, one of them may stop,
\* and the intervals and the transport keep running.
InitRoom == now = StaleAge /\ CoordIdle /\ RoleIdle /\ room = {A1, Z9} /\ IceIdle /\ ArbIdle /\ RelayIdle /\ ElectIdle /\ ServerIdle /\ relayCall = NoCall
RoomFairness ==
  /\ WF_vars(roomTick)
  /\ WF_vars(\E m \in Members : roomWatchdog(m))
  /\ WF_vars(\E m \in Members : roomHeartbeat(m))
  /\ WF_vars(\E x \in coInbox : roomDeliver(x))
SpecRoom == InitRoom /\ [][RoomNext]_vars /\ RoomFairness

\* The relay requests made of member "f9".
InitCall == InitCoord
SpecCall == InitCall /\ [][CallNext]_vars

\* The signaling server of one room key.
InitServer == now = 0 /\ CoordIdle /\ RoleIdle /\ room = {} /\ IceIdle /\ ArbIdle /\ RelayIdle /\ ElectIdle /\ ServerIdle /\ relayCall = NoCall
SpecServer == InitServer /\ [][ServerNext]_vars
MeshFairness ==
  /\ WF_vars(\E i \in Members : meshJoin(i))
  /\ WF_vars(\E i \in Members : meshDeliver(i))
  /\ WF_vars(\E i \in Members, p \in Members : meshOfferCreated(i, p))
SpecMesh == InitMesh /\ [][MeshNext]_vars /\ MeshFairness

-----------------------------------------------------------------------------
(* Properties *)

\* C1: for distinct PeerIds A, B with A lexicographically smaller than B,
\* A's initiator test toward B is true and B's toward A is false, in the
\* relay negotiation (shouldInitiateWith) and in the simple-peer adapter
\* (chooseDeterministicInitiator) alike.
C1_OneInitiator ==
  (roleOut.computed /\ StrLess(rolePair[1], rolePair[2]))
    => /\ roleOut.relayA /\ ~roleOut.relayB
       /\ roleOut.adapterA /\ ~roleOut.adapterB
       /\ ~roleOut.politeA /\ roleOut.politeB

\* The scenario of the specification: "a1" and "z9"; "a1" is the initiator.
C1_Witness ==
  /\ roleOut.computed
  /\ rolePair = <<A1, Z9>>
  /\ roleOut.relayA /\ ~roleOut.relayB

\* The lexicographically smallest element of a non-empty set of PeerIds.
IsLeast(x, S) == x \in S /\ \A y \in S : x = y \/ StrLess(x, y)

\* A step of member m that runs a forced election.
ForcedElectionStep(m) ==
  \/ initialize(m)
  \/ checkCoordinatorHealth(m)
  \/ \E p \in Members : p = coordinatorId[m] /\ markPeerDisconnected(m, p)

\* C8: every forced election selects the lexicographically smallest alive
\* PeerId (none when no peer is alive), isCoordinator says whether that is
\* the member itself, and a forced election repeated on the same alive set
\* changes neither coordinatorId nor isCoordinator.
C8_ForcedElectionIdempotent ==
  [][\A m \in Members : ForcedElectionStep(m) =>
        LET alive == AliveOf(knownPeers'[m], now')
        IN  /\ IF alive = {} THEN coordinatorId'[m] = Null
                             ELSE IsLeast(coordinatorId'[m], alive)
            /\ isCoordinator'[m] = (coordinatorId'[m] = m)
            /\ (/\ lastElection.member = m
                /\ lastElection.force
                /\ lastElection.alive = alive
                /\ coordinatorId[m] = lastElection.chosen
                /\ isCoordinator[m] = lastElection.self)
               => /\ coordinatorId'[m] = coordinatorId[m]
                  /\ isCoordinator'[m] = isCoordinator[m]]_vars

\* A forced election was repeated on an alive set of two peers or more, and
\* the member did not elect itself.
C8_Witness ==
  /\ lastElection.repeated
  /\ Cardinality(lastElection.alive) >= 2
  /\ lastElection.chosen = A1
  /\ coordinatorId[F9] = A1

\* The elements of a sequence.
Range(q) == {q[i] : i \in 1..Len(q)}

\* The messages sent to the peer that carry a candidate of the current
\* connection.
IceMessagesOfGen == {i \in 1..Len(iceOut) : Range(iceOut[i].candidates) \cap Range(iceGen) # {}}

\* C7: the candidates (one or more) a connection generated within one
\* debounce window, followed by end-of-candidates, went out in exactly one
\* message to the peer, a batch that contains them all.
C7_ExactlyOneBatch ==
  (iceDone /\ ~iceExpired /\ iceGen # <<>>)
    => \E i \in IceMessagesOfGen :
         /\ IceMessagesOfGen = {i}
         /\ iceOut[i].type = "signal-ice-batch"
         /\ Range(iceGen) \subseteq Range(iceOut[i].candidates)

\* C6: once peerPreferredSource holds a value for the peer, no step changes
\* or clears it: no activation of a transport, no teardown, no close of the
\* winner's connection.
C6_PreferredNeverChanges ==
  [][peerPreferredSource # "none" => peerPreferredSource' = peerPreferredSource]_vars

\* The relay won; since then the tracker peer connected (and was rejected)
\* and the winner's connection was closed twice, and the table of channels
\* is empty again.
C6_Witness ==
  /\ peerPreferredSource = "Nostr"
  /\ arbRejected >= 1
  /\ arbCycles >= 2
  /\ arbDc = NoChannel
  /\ ~arbPc

\* The step delivers the relay event e to the tab i.
Delivers(i, e) ==
  /\ e \in Undelivered(i)
  /\ inst[i].nostrClient
  /\ inst'[i].seen = inst[i].seen \cup {e}

\* The negotiation sessions of a tab: its RTCPeerConnections (a placeholder
\* of a peer seen is none), their channels and the offers in creation.
NegotiationSessions(st) ==
  [p \in Members |->
     [pc |-> IF st.peerConnections[p].kind = "pc" THEN st.peerConnections[p] ELSE AbsentPc,
      channel |-> p \in st.dataChannels,
      creating |-> st.creating[p]]]

\* C3: a live tab that receives a message whose toSession is not its own
\* session token applies none of it: its session table, its readiness set
\* and its negotiation sessions are the same after the step; so only the
\* holder of the token processes the message.
C3_ToSessionOnlyAtHolder ==
  [][\A i \in Members : \A e \in relayLog :
        (Delivers(i, e) /\ e.toSession # NoSession /\ e.toSession # inst[i].mySessionNonce)
          => /\ inst'[i].peerSessions = inst[i].peerSessions
             /\ inst'[i].readyPeers = inst[i].readyPeers
             /\ NegotiationSessions(inst'[i]) = NegotiationSessions(inst[i])
             /\ inst'[i].mySessionNonce = inst[i].mySessionNonce]_vars

\* A tab that knows the sender's session and holds a ready peer or a
\* connection has just dropped a message addressed to another session.
C3_Witness ==
  /\ lastEvent.kind = "toSession mismatch"
  /\ inst[lastEvent.at].nostrClient
  /\ inst[lastEvent.at].peerSessions[lastEvent.peer] # NoSession
  /\ \/ inst[lastEvent.at].readyPeers # {}
     \/ inst[lastEvent.at].peerConnections[lastEvent.peer].kind = "pc"

\* The probe-ack e answers, in time, the probe the tab i has on record for
\* its sender, and is addressed to the tab; inTime tests the age.
AckInTime(i, e, maxAge) ==
  LET last == inst[i].peerProbeState[e.from]
  IN  /\ e.to = i
      /\ e.toSession = inst[i].mySessionNonce
      /\ last.has
      /\ e.probeId = last.probeId
      /\ now - last.ts <= maxAge

\* C4, as the code has it: a probe-ack from P makes P ready if and only if
\* its probeId is the probeId of the most recent probe to P and that probe
\* is at most 30 s old; every other probe-ack is dropped and never makes P
\* ready (it can withdraw the readiness: an ack that carries a new session
\* token of P does).
C4_AckAcceptedIffCurrentAndInTime ==
  [][\A i \in Members : \A e \in relayLog :
        (Delivers(i, e) /\ e.type = "probe-ack")
          => IF AckInTime(i, e, PROBE_ACK_MAX_AGE)
             THEN e.from \in inst'[i].readyPeers
             ELSE inst'[i].readyPeers \subseteq inst[i].readyPeers]_vars

\* C4, as stated: accepted if and only if the probeId is the most recent
\* one and the probe less than 30 s old; every other probe-ack leaves the
\* readiness as it was.
C4_AckAcceptedIffLessThan30 ==
  [][\A i \in Members : \A e \in relayLog :
        (Delivers(i, e) /\ e.type = "probe-ack")
          => IF AckInTime(i, e, PROBE_ACK_MAX_AGE - 1)
             THEN e.from \in inst'[i].readyPeers
             ELSE inst'[i].readyPeers = inst[i].readyPeers]_vars

\* A probe-ack was accepted exactly 30 s after its probe.
C4_Witness ==
  /\ lastEvent.kind = "probe-ack accepted"
  /\ lastEvent.peer \in inst[lastEvent.at].readyPeers
  /\ now - inst[lastEvent.at].peerProbeState[lastEvent.peer].ts = PROBE_ACK_MAX_AGE

\* C9: when the initiating side has just sent an offer to a peer, over the
\* relay or over Gun, the peer is in its ready set, and so is every peer
\* for which it has an offer in creation.
C9_OfferOnlyWhenReady ==
  /\ lastEvent.kind \in {"offer sent", "gun offer sent"}
       => lastEvent.peer \in inst[lastEvent.at].readyPeers
  /\ \A i \in Members : \A p \in Members :
       (lastEvent.kind \in {"probe-ack accepted", "gun discovery"}
        /\ lastEvent.at = i /\ lastEvent.peer = p /\ inst[i].creating[p] # NoCreating)
         => p \in inst[i].readyPeers

\* The peer p received a probe of the tab i and answered it from the
\* session the tab has on record, and the tab received the answer.
RoundTrip(i, p) ==
  \E a \in inst[i].seen :
     /\ a.type = "probe-ack" /\ a.from = p /\ a.to = i
     /\ a.fromSession = inst[i].peerSessions[p]
     /\ \E q \in relayLog :
          q.type = "probe" /\ q.from = i /\ q.to = p /\ q.probeId = a.probeId

ChannelOpen(i, p) ==
  LET a == inst[i].peerConnections[p]
      b == inst[p].peerConnections[i]
  IN  /\ a.kind = "pc" /\ b.kind = "pc"
      /\ a.signalingState = "stable" /\ b.signalingState = "stable"
      /\ a.local.type = "offer" /\ b.remote = a.local
      /\ b.local.type = "answer" /\ a.remote = b.local /\ b.local.re = a.local.id
      /\ p \in inst[i].dataChannels

AllPairsOpen ==
  \A i \in Members : \A p \in Members : shouldInitiateWith(i, p) => ChannelOpen(i, p)

\* C2, under prompt delivery: when three peers join the room and the relay
\* delivers every event to the other two, and no event is still waiting for
\* its delivery when more than 30 s pass, each of the three pairs is
\* eventually negotiated at both ends.
C2_MeshOpensUnlessLate == <>(AllPairsOpen \/ late)

\* C2, as stated: each of the three pairs is eventually negotiated at both
\* ends, however late the relay delivers.
C2_MeshEventuallyOpen == <>AllPairsOpen

\* The three pairs are open and no event was late.
C2_Witness == AllPairsOpen /\ ~late /\ Waiting = {}

\* The session tokens the tab i has announced.
Announced(i) == {m.session : m \in {h \in relayLog : h.type = "hello" /\ h.from = i}}

\* C11, as the code has it: the session token does not change while the
\* tab is connected, a reconnect included; an explicit disconnect clears
\* it, and the connect that follows takes a token the tab never announced.
C11_TokenStableUntilDisconnect ==
  [][\A i \in Members :
        /\ (inst[i].nostrClient /\ inst'[i].nostrClient)
              => inst'[i].mySessionNonce = inst[i].mySessionNonce
        /\ (inst[i].nostrClient /\ ~inst'[i].nostrClient)
              => inst'[i].mySessionNonce = NoSession
        /\ (~inst[i].nostrClient /\ inst'[i].nostrClient)
              => /\ inst'[i].mySessionNonce # NoSession
                 /\ inst'[i].mySessionNonce \notin Announced(i)]_vars

\* C11, as stated: every reconnect rotates the token too.
C11_TokenRotatesOnReconnect ==
  [][\A i \in Members :
        /\ (inst[i].nostrClient /\ inst'[i].nostrClient /\ inst'[i].connects = inst[i].connects)
              => inst'[i].mySessionNonce = inst[i].mySessionNonce
        /\ inst'[i].connects > inst[i].connects
              => inst'[i].mySessionNonce # inst[i].mySessionNonce]_vars

\* A connected tab has just reconnected and kept its token.
C11_Witness ==
  /\ lastEvent.kind = "connect"
  /\ inst[lastEvent.at].connects >= 2
  /\ inst[lastEvent.at].sessions = 1
  /\ inst[lastEvent.at].mySessionNonce \in Announced(lastEvent.at)

\* ---- C12 ----
\* The room has one coordinator: one live member has isCoordinator set and
\* every live member holds its PeerId as coordinatorId.
OneCoordinator ==
  \E c \in joined :
    \A m \in joined : coordinatorId[m] = c /\ (isCoordinator[m] <=> m = c)

\* C12: in a room whose membership has stopped changing and whose
\* coordinator messages are delivered, from some point on there is exactly
\* one coordinator, on which every live member agrees (or no member is left).
C12_EventuallyOneCoordinator == <>[](joined = {} \/ OneCoordinator)

\* ---- C13 ----
\* C13: no message queued for a client originates from a client of a
\* different session: when the receiver was in a session as the message
\* was queued, the sender was in that session.
C13_SessionIsolation ==
  \A c \in Known : \A k \in 1..Len(queues[c]) :
    queues[c][k].held # NoSessionId => queues[c][k].origin = queues[c][k].held

\* ---- C14 ----
\* The state the claim names: session table, readiness, probe state and
\* connections (the entry made for a peer seen for the first time left out).
Negotiation(st) ==
  [peerSessions |-> st.peerSessions, readyPeers |-> st.readyPeers,
   peerProbeState |-> st.peerProbeState, peerResyncState |-> st.peerResyncState,
   dataChannels |-> st.dataChannels, initiatedPeers |-> st.initiatedPeers,
   creating |-> st.creating,
   peerConnections |-> [p \in Members |-> IF st.peerConnections[p] = SeenPc THEN AbsentPc
                                           ELSE st.peerConnections[p]]]

\* C14: a received message whose "to" names another PeerId is dropped: the
\* step that delivers it changes nothing of the receiver's negotiation state
\* and publishes nothing.
C14_ForeignMessageDropped ==
  [][\A i \in Members : \A e \in relayLog :
        (e \notin inst[i].seen /\ e \in inst'[i].seen /\ e.to # Null /\ e.to # i)
           => /\ Negotiation(inst'[i]) = Negotiation(inst[i])
              /\ relayLog' = relayLog]_vars

\* ---- C15 ----
\* The events of peer p that tab i has dropped for their toSession since
\* its last connect.
Mismatched(i, p) ==
  {e \in inst[i].seen : /\ e.from = p
                        /\ e.type \notin {"hello", "probe"}
                        /\ SessionMismatch(inst[i], e)}

HellosOf(i, p) == {e \in inst[i].seen : e.type = "hello" /\ e.from = p}

\* The received messages of peer p from which onPayload takes a session
\* token: a hello, a probe, or a message that passed the toSession and the
\* "to" tests.
SessionSources(i, p) ==
  {e \in inst[i].seen :
     /\ e.from = p
     /\ \/ e.type \in {"hello", "probe"}
        \/ /\ e.toSession \in {NoSession, inst[i].mySessionNonce}
           /\ e.to \in {Null, i}}

TokenOf(e) == IF e.type = "hello" THEN e.session ELSE e.fromSession

C17_RefusedRelayReported ==
  (relayCall.made /\ ~relayCall.coordinator)
    => /\ ~relayCall.sent
       /\ [returned |-> relayCall.returned, threw |-> relayCall.threw] # Relayed

\* ---- C18 ----
\* C18: the messages of one peer are handled one after the other: while
\* the offer of peer p is still being answered, the handling of a next
\* message of p does not close the connection the answer is made on.
C18_NoResetWhileAnswering ==
  [][\A i \in Members : \A p \in Members :
        (/\ inst[i].answering[p] # NoPc
         /\ inst[i].peerConnections[p].id = inst[i].answering[p]
         /\ \E e \in inst'[i].seen \ inst[i].seen : e.from = p)
          => inst'[i].peerConnections[p].id = inst[i].answering[p]]_vars

\* ---- C19 ----
Probes == {m \in relayLog : m.type = "probe"}

\* C19 (as stated): every probe is sent by the side whose PeerId sorts
\* before the receiver's.
C19_ProbesOnlyFromInitiator ==
  \A m \in Probes : shouldInitiateWith(m.from, m.to)

\* C19 (amended): a probe is sent by the side whose PeerId sorts before the
\* receiver's, or it is the resync probe of a tab that has just dropped a
\* message of the receiver for its toSession.
C19_ProbesFromInitiatorOrResync ==
  [][\A m \in relayLog' \ relayLog :
        m.type = "probe"
          => \/ shouldInitiateWith(m.from, m.to)
             \/ /\ lastEvent'.kind = "toSession mismatch"
                /\ lastEvent'.at = m.from
                /\ lastEvent'.peer = m.to]_vars

\* The side that sorts after its peer has sent it a resync probe.
C19_Witness ==
  /\ lastEvent.kind = "toSession mismatch"
  /\ \E m \in Probes : /\ m.from = lastEvent.at
                        /\ m.to = lastEvent.peer
                        /\ ~shouldInitiateWith(m.from, m.to)
                        /\ m.probeId = <<m.from, inst[m.from].probes>>

\* ---- C20 ----
\* Tab i holds peer p ready for the session token.
ReadyFor(i, p, token) == p \in inst[i].readyPeers /\ inst[i].peerSessions[p] = token

\* C20: each time the deterministic initiator learns or re-learns a peer's
\* session token from a presence message while it does not hold the peer
\* ready for that token, it publishes a probe to that peer in that step.
C20_InitiatorProbesUnlessReady ==
  [][\A i \in Members : \A e \in inst'[i].seen \ inst[i].seen :
        (/\ e.type = "hello"
         /\ shouldInitiateWith(i, e.from)
         /\ inst[i].mySessionNonce # NoSession
         /\ ~ReadyFor(i, e.from, e.session))
          => \E m \in relayLog' \ relayLog :
               m.type = "probe" /\ m.from = i /\ m.to = e.from]_vars

\* ---- C21 ----
\* The probe-ack a tab publishes for a probe: same probeId, addressed to the
\* probe's sender and to the session the probe came from.
AckOf(i, e) ==
  [Msg("probe-ack", i) EXCEPT !.to = e.from, !.toSession = e.fromSession,
                              !.fromSession = inst[i].mySessionNonce,
                              !.probeId = e.probeId]

OfferResults == {"offer without connection", "offer ignored", "offer accepted"}

AnswerResults ==
  {"answer applied", "answer ignored", "gun answer applied", "gun answer rejected",
   "gun answer without connection"}

C24_CandidateAfterRemoteDescription ==
  [][\A i \in Members : \A p \in Members \ {i} :
       LET pc == inst[i].peerConnections[p]
           pc2 == inst'[i].peerConnections[p]
           list == inst[i].pendingIce[p]
           list2 == inst'[i].pendingIce[p]
           queued == {list[k] : k \in 1..Len(list)}
       IN  /\ (pc2.kind = "pc" /\ pc2.ice # {}) => pc2.remote # NoSdp
           /\ (/\ lastEvent'.kind = "candidate" /\ lastEvent'.at = i /\ lastEvent'.peer = p
               /\ pc.kind = "pc")
              => IF pc.remote = NoSdp
                 THEN pc2 = pc /\ Len(list2) = Len(list) + 1
                      /\ \A k \in 1..Len(list) : list2[k] = list[k]
                 ELSE list2 = list /\ pc2.id = pc.id /\ pc.ice \subseteq pc2.ice
                      /\ Cardinality(pc2.ice \ pc.ice) <= 1 /\ pc2.ice # {}
           /\ (pc.kind = "pc" /\ pc2.kind = "pc" /\ pc2.id = pc.id
               /\ pc.remote = NoSdp /\ pc2.remote # NoSdp)
              => (queued \subseteq pc2.ice /\ list2 = <<>>)]_vars

\* The initiator queued a candidate that came before the answer, and the
\* answer's step added it to the connection.
C24_Witness ==
  /\ lastEvent.kind = "answer applied"
  /\ LET st == inst[lastEvent.at]
         pc == st.peerConnections[lastEvent.peer]
     IN  /\ pc.kind = "pc" /\ pc.remote.type = "answer"
         /\ pc.ice # {} /\ st.pendingIce[lastEvent.peer] = <<>>

\* ---- C25 ----
\* The open objects of a kind a tab holds for a peer.
OpenFor(i, p, kind) == {o \in inst[i].open : o.kind = kind /\ o.peer = p}

\* C25: a tab never has two open connections, nor two open data channels,
\* for one peer, and an open connection is the registered one; and a step
\* that replaces a peer's registered connection by another closes the
\* replaced connection and its channel and starts the new one without
\* queued or added candidates of the old.
C25_ResetClosesBeforeCreate ==
  [][\A i \in Members : \A p \in Members \ {i} :
       LET pc == inst[i].peerConnections[p]
           pc2 == inst'[i].peerConnections[p]
           open2 == inst'[i].open
       IN  /\ \A o \in open2 : o.peer = p =>
                 (pc2.kind = "pc" /\ o.id = pc2.id)
           /\ \A o1, o2 \in open2 :
                 (o1.peer = p /\ o2.peer = p /\ o1.kind = o2.kind) => o1 = o2
           /\ (pc.kind = "pc" /\ pc2.kind = "pc" /\ pc2.id # pc.id)
              => /\ \A o \in open2 : o.id # pc.id
                 /\ Open("pc", pc2.id, p) \in open2
                 /\ inst'[i].pendingIce[p] = <<>>
                 /\ pc2.ice = {}]_vars

\* A tab has replaced, within one connect, its first connection by a second
\* on a colliding offer, and the second is its only open connection.
C25_Witness ==
  /\ lastEvent.kind = "offer accepted"
  /\ LET st == inst[lastEvent.at]
         pc == st.peerConnections[lastEvent.peer]
     IN  /\ st.connects = 1 /\ pc.kind = "pc" /\ pc.id = <<lastEvent.at, 2>>
         /\ pc.ice = {}
         /\ OpenFor(lastEvent.at, lastEvent.peer, "pc") = {Open("pc", pc.id, lastEvent.peer)}

TrackerPeerRefused ==
  /\ arbMade' = arbMade + 1
  /\ arbDc' = arbDc
  /\ peerSources' # "Tracker"

C28_EveryJoinAnnounces ==
  [][\A m \in Members :
       (m \notin joined /\ m \in joined')
         => coMsgs' = Broadcast(m, [type |-> "coordinator-candidate", candidateId |-> m])]_vars

\* ---- C29 ----
\* C29: the step in which a member deletes the record of the peer it holds
\* as coordinator, on that peer's disconnect notice, is a forced election
\* of that member on the remaining records, and after it the member's
\* coordinatorId is the smallest alive of them (none when none is alive),
\* not the departed peer.
C29_DisconnectElectsAtOnce ==
  [][\A m \in Members : \A p \in Members \ {m} :
       (/\ knownPeers[m][p] # NoTime /\ knownPeers'[m][p] = NoTime
        /\ knownPeers'[m][m] = knownPeers[m][m]
        /\ coordinatorId[m] = p)
         => LET alive == AliveOf(knownPeers'[m], now')
            IN  /\ coordinatorId'[m] # p
                /\ IF alive = {} THEN coordinatorId'[m] = Null
                                 ELSE IsLeast(coordinatorId'[m], alive)
                /\ isCoordinator'[m] = (coordinatorId'[m] = m)
                /\ lastElection'.member = m /\ lastElection'.force
                /\ lastElection'.alive = alive]_vars

\* At time 0 a joined member has no record of a peer that sorts before the
\* peers it knows alive, and its last election, forced, chose among two or
\* more of them: the peer was its coordinator and its disconnect notice
\* came.
C29_Witness ==
  /\ now = 0
  /\ \E m \in joined : \E p \in Members \ {m} :
        /\ knownPeers[m][p] = NoTime
        /\ lastElection.member = m /\ lastElection.force
        /\ Cardinality(lastElection.alive) >= 2
        /\ IsLeast(p, lastElection.alive \cup {p})
        /\ coordinatorId[m] = lastElection.chosen
        /\ coordinatorId[m] \notin {Null, p}


\* C30: a malformed remote description or candidate of a peer is a dropped
\* message: no handler run on one ends in a failure that nothing handles.
C30_MalformedIsDropped ==
  [][lastEvent'.kind # "unhandled rejection"]_vars

\* A step of pc.onicecandidate that puts a candidate into the pending list.
CandidateBatched == nostrClient /\ Len(iceGen') = Len(iceGen) + 1

\* A step in which a timeout of the batcher fires.
TimeoutFired == Len(iceTimeouts') < Len(iceTimeouts)

\* The timeout armed last.
LastTimeout(timeouts) == timeouts[Len(timeouts)]

AllCandidates == (1..MaxPcs) \X (1..MaxCands)

\* The candidates in the peer's pending list.
Pending == Range(outboundIceBatch.candidates)

\* C32: no candidate stays in the pending list for ever: each one put there
\* leaves it, by a timeout or by the end-of-candidates signal, which empties
\* the list at once whether a timeout is pending or not.
C32_BatchNeverLeftPending ==
  /\ \A c \in AllCandidates : (c \in Pending) ~> (c \notin Pending)
  /\ [][(nostrClient /\ iceDone' /\ ~iceDone) => outboundIceBatch'.candidates = <<>>]_vars

\* End-of-candidates emptied the pending list of a connection that gathered
\* candidates, sent them, and left the timeout of the batch pending.
C32_Witness ==
  /\ iceDone /\ ~iceExpired /\ iceGen # <<>>
  /\ outboundIceBatch.candidates = <<>>
  /\ iceTimeouts # <<>>
  /\ iceOut # <<>>
  /\ Range(iceGen) \subseteq Range(iceOut[Len(iceOut)].candidates)

\* C33: whenever a step sets or changes the session token a tab records for
\* a peer, and is not itself the acceptance of a probe-ack of that peer,
\* the peer is not in the tab's ready set after it.
C33_ReadyOnlyForRecordedToken ==
  [][\A i \in relayPeers : \A p \in relayPeers \ {i} :
        (/\ inst'[i].peerSessions[p] # inst[i].peerSessions[p]
         /\ inst'[i].peerSessions[p] # NoSession
         /\ lastEvent' # Event("probe-ack accepted", i, p))
          => p \notin inst'[i].readyPeers]_vars

\* C34: a member between initialize() and destroy() holds a coordinator:
\* it counts itself alive, so no election of its own leaves coordinatorId
\* null.
C34_JoinedMemberHoldsCoordinator ==
  \A m \in joined : coordinatorId[m] # Null

\* C35: a member that was destroyed and has not been initialized again
\* holds no coordinator and no known peers, and runs neither its heartbeat
\* nor its watchdog, whatever coordinator messages reach it.
C35_DestroyedStaysCleared ==
  \A m \in Members :
    (electionAnnounced[m] /\ m \notin joined)
      => /\ coordinatorId[m] = Null
         /\ knownPeers[m] = NoPeers
         /\ ~coordinatorHeartbeatTimer[m]
         /\ ~coordinatorElectionTimer[m]

\* The heartbeats that can reach a member.
HeartbeatPayloads == {p \in OutsiderPayloads : p.type = "coordinator-heartbeat"}

\* The known peers of member m once the sender of heartbeat p is refreshed.
SenderRefreshed(m, p) == updatePeerHeartbeat(knownPeers[m], p.coordinatorId, now)

\* A step in which member m has handled the heartbeat p: the sender's
\* record is refreshed, the peers of the heartbeat's list are registered,
\* and the election last run is m's and not forced.
HeartbeatHandled(m, p) ==
  /\ now' = now
  /\ knownPeers'[m] = registerAll(SenderRefreshed(m, p), p.knownPeers, now)
  /\ knownPeers'[m] # knownPeers[m]
  /\ lastElection'.member = m
  /\ ~lastElection'.force

\* C36: after a member has handled a coordinator heartbeat, its
\* coordinatorId is the smallest alive PeerId among its known peers, those
\* the heartbeat's list has added included.
C36_SmallestAfterHeartbeat ==
  [][\A m \in joined : \A p \in HeartbeatPayloads :
        HeartbeatHandled(m, p)
          => coordinatorId'[m] = Head(SortIds(AliveOf(knownPeers'[m], now)))]_vars

\* C36 (amended): after a member has handled a coordinator heartbeat, its
\* coordinatorId is the smallest alive PeerId among the peers it knew once
\* the sender's record was refreshed; the peers the heartbeat's list adds
\* are registered after the election and are not counted in it.
C36_SmallestBeforeListRegistered ==
  [][\A m \in joined :
        (\E p \in HeartbeatPayloads : HeartbeatHandled(m, p))
          => \E p \in HeartbeatPayloads :
                /\ HeartbeatHandled(m, p)
                /\ lastElection'.alive = AliveOf(SenderRefreshed(m, p), now)
                /\ coordinatorId'[m] = Head(SortIds(lastElection'.alive))]_vars

\* A member has just handled a heartbeat whose list added a peer smaller
\* than the coordinator it holds: the peer is registered at this instant
\* and was no candidate of the election.
C36_Witness ==
  \E m \in joined :
    /\ lastElection.member = m /\ ~lastElection.force
    /\ coordinatorId[m] = lastElection.chosen
    /\ \E s \in Members \ lastElection.alive :
         /\ knownPeers[m][s] = now
         /\ StrLess(s, coordinatorId[m])

\* C37: a candidate of a peer that is handled while no remote description
\* is set for that peer, whether a connection to it exists or not, joins
\* the peer's queue after those already there.
C37_EarlyCandidateRetained ==
  [][\A i \in Members : \A p \in Members \ {i} :
       LET list == inst[i].pendingIce[p]
           list2 == inst'[i].pendingIce[p]
       IN  (/\ lastEvent' = Event("candidate", i, p)
            /\ inst[i].peerConnections[p].remote = NoSdp)
             => /\ Len(list2) = Len(list) + 1
                /\ \A k \in 1..Len(list) : list2[k] = list[k]]_vars

\* C38: between two handlers a member is coordinator exactly when the
\* coordinatorId it holds is its own PeerId, and its heartbeat interval
\* runs exactly when it is coordinator.
C38_RoleAgreesWithCoordinatorId ==
  \A m \in Members :
    /\ isCoordinator[m] <=> (coordinatorId[m] = m)
    /\ coordinatorHeartbeatTimer[m] <=> isCoordinator[m]

\* A member made itself coordinator, with its heartbeat running, in a
\* forced election while it knows a smaller peer whose record is too old.
C38_Witness ==
  \E m \in joined :
    /\ isCoordinator[m] /\ coordinatorId[m] = m /\ coordinatorHeartbeatTimer[m]
    /\ lastElection.member = m /\ lastElection.force /\ lastElection.chosen = m
    /\ \E o \in Members \ {m} :
         /\ knownPeers[m][o] # NoTime
         /\ StrLess(o, m)
         /\ o \notin lastElection.alive

\* C39: every candidate message sent to the peer carries only candidates of
\* the connection the registry holds for the peer when it is sent.
C39_BatchOfCurrentConnection ==
  [][Len(iceOut') > Len(iceOut)
       => \A c \in Range(iceOut'[Len(iceOut')].candidates) : c[1] = icePc']_vars

=============================================================================
